---- MODULE Spec2Model ----
(***************************************************************************)
(* Verification model of the iqro-gesture backend: the landmark window     *)
(* normalisation and classifier of app/services/inference.py, the audio    *)
(* cache of app/services/tts_service.py and the per-connection WebSocket   *)
(* pipeline of app/api/websocket.py.                                       *)
(*                                                                         *)
(* Conventions.  Python indices are 0-based; sequences here are 1-based,   *)
(* so LABELS[class_idx + 1] is Python's labels[class_idx].  A confidence   *)
(* is an integer number of ten-thousandths (5000 is 0.5).  A coordinate is *)
(* an integer number of units of the double it stands for; the single-     *)
(* precision values are the multiples of F32Grid.  A Python call that may  *)
(* raise is a record [ok |-> TRUE, val |-> v] or [ok |-> FALSE].           *)
(***************************************************************************)
EXTENDS Integers, Sequences, FiniteSets, TLC

VARIABLES
    landmarks,           \* SpecInference: the landmark sequence under test
    window,              \* SpecInference: what preprocess_landmarks returned
    triple,              \* SpecInference: what predict returned
    use_dummy,           \* InferenceService.use_dummy or not model_loaded
    enabled,             \* TTSService.enabled
    cache,               \* files of TTSService.cache_dir: key -> bytes
    tts,                 \* the last call on the TTSService and its result
    served,              \* label -> audio last returned, since the last clear
    fill,                \* SpecFill: each caller's generate_audio in progress
    active_connections,  \* ConnectionManager.active_connections: id -> socket
    session_data,        \* ConnectionManager.session_data: id -> stats
    pc,                  \* position of each connection's handler coroutine
    sid,                 \* the session_id path parameter of each connection
    ws_open,             \* whether the client end of each socket is open
    gesture_predictions, \* rows of the gesture_predictions table
    session_logs,        \* rows of the session_logs table, by session_id
    db_dirty,            \* per connection: its db session awaits a rollback
    last,                \* the last inbound message handled and what it did
    ended,               \* the last teardown and what it did
    order,               \* the keys of active_connections in dict order
    mgr,                 \* the last call made on the ConnectionManager
    bc,                  \* the broadcast in progress: its dict iterator
    torn,                \* per connection: the runs of its finally block
    running,             \* the handler that holds the event loop's thread
    inbox,               \* per connection: frames arrived and not yet read
    taken,               \* per connection: frames receive_text has returned
    cur,                 \* per connection: the landmarks message in process
    handed,              \* per socket: the messages send_json was given
    produced             \* per connection: prediction responses built for it

vars ==
    << landmarks, window, triple, use_dummy, enabled, cache, tts, served, fill,
       active_connections, session_data, pc, sid, ws_open,
       gesture_predictions, session_logs, db_dirty, last, ended, order, mgr, bc,
       torn, running, inbox, taken, cur, handed, produced >>

-----------------------------------------------------------------------------
(* Settings, app/config.py *)

SEQUENCE_LENGTH == 30

LANDMARK_SIZE == 63

\* 0.5, in ten-thousandths
CONFIDENCE_THRESHOLD == 5000

\* len(sequence) < 10, app/api/websocket.py
MIN_FRAMES == 10

ConfOne == 2 * CONFIDENCE_THRESHOLD

LABELS ==
    << "Alif", "Ba", "Ta", "Tsa", "Jim", "bis", "mil", "lah",
       "hir", "rah", "maa", "nir", "ra", "hiim", "al", "ham",
       "du", "lil", "rab", "bil", "aa", "la", "miin", "ar",
       "li", "ki", "yaw", "mi", "dii", "ni", "iy", "yaa",
       "ka", "na", "bu", "wa", "nas", "ta", "iin", "ih",
       "di", "naa", "as", "shi", "raa", "tal", "mus", "qiim",
       "dhi", "an", "am", "a", "lai", "him", "ghai", "ril",
       "magh", "duu", "bi", "lad", "dhaal", "liin" >>

NumLabels == Len(LABELS)

ARABIC_PRONUNCIATION ==
    [l \in {"Alif", "Ba", "Ta", "Tsa", "Jim", "mil", "lah", "hiim", "miin", "qiim"} |->
        CASE l = "hiim" -> "him"
          [] l = "miin" -> "min"
          [] l = "qiim" -> "qim"
          [] OTHER -> l]

ARABIC_LABELS ==
    [l \in {"Alif", "Ba", "Ta", "Tsa", "Jim"} |->
        CASE l = "Alif" -> "ar:alif"
          [] l = "Ba" -> "ar:ba"
          [] l = "Ta" -> "ar:ta"
          [] l = "Tsa" -> "ar:tsa"
          [] OTHER -> "ar:jim"]

\* The characters of each label, for the file-name sanitiser.
Spell ==
    ("Alif" :> << "A", "l", "i", "f" >>)
    @@ ("Ba" :> << "B", "a" >>)
    @@ ("Ta" :> << "T", "a" >>)
    @@ ("Tsa" :> << "T", "s", "a" >>)
    @@ ("Jim" :> << "J", "i", "m" >>)
    @@ ("bis" :> << "b", "i", "s" >>)
    @@ ("mil" :> << "m", "i", "l" >>)
    @@ ("lah" :> << "l", "a", "h" >>)
    @@ ("hir" :> << "h", "i", "r" >>)
    @@ ("rah" :> << "r", "a", "h" >>)
    @@ ("maa" :> << "m", "a", "a" >>)
    @@ ("nir" :> << "n", "i", "r" >>)
    @@ ("ra" :> << "r", "a" >>)
    @@ ("hiim" :> << "h", "i", "i", "m" >>)
    @@ ("al" :> << "a", "l" >>)
    @@ ("ham" :> << "h", "a", "m" >>)
    @@ ("du" :> << "d", "u" >>)
    @@ ("lil" :> << "l", "i", "l" >>)
    @@ ("rab" :> << "r", "a", "b" >>)
    @@ ("bil" :> << "b", "i", "l" >>)
    @@ ("aa" :> << "a", "a" >>)
    @@ ("la" :> << "l", "a" >>)
    @@ ("miin" :> << "m", "i", "i", "n" >>)
    @@ ("ar" :> << "a", "r" >>)
    @@ ("li" :> << "l", "i" >>)
    @@ ("ki" :> << "k", "i" >>)
    @@ ("yaw" :> << "y", "a", "w" >>)
    @@ ("mi" :> << "m", "i" >>)
    @@ ("dii" :> << "d", "i", "i" >>)
    @@ ("ni" :> << "n", "i" >>)
    @@ ("iy" :> << "i", "y" >>)
    @@ ("yaa" :> << "y", "a", "a" >>)
    @@ ("ka" :> << "k", "a" >>)
    @@ ("na" :> << "n", "a" >>)
    @@ ("bu" :> << "b", "u" >>)
    @@ ("wa" :> << "w", "a" >>)
    @@ ("nas" :> << "n", "a", "s" >>)
    @@ ("ta" :> << "t", "a" >>)
    @@ ("iin" :> << "i", "i", "n" >>)
    @@ ("ih" :> << "i", "h" >>)
    @@ ("di" :> << "d", "i" >>)
    @@ ("naa" :> << "n", "a", "a" >>)
    @@ ("as" :> << "a", "s" >>)
    @@ ("shi" :> << "s", "h", "i" >>)
    @@ ("raa" :> << "r", "a", "a" >>)
    @@ ("tal" :> << "t", "a", "l" >>)
    @@ ("mus" :> << "m", "u", "s" >>)
    @@ ("qiim" :> << "q", "i", "i", "m" >>)
    @@ ("dhi" :> << "d", "h", "i" >>)
    @@ ("an" :> << "a", "n" >>)
    @@ ("am" :> << "a", "m" >>)
    @@ ("a" :> << "a" >>)
    @@ ("lai" :> << "l", "a", "i" >>)
    @@ ("him" :> << "h", "i", "m" >>)
    @@ ("ghai" :> << "g", "h", "a", "i" >>)
    @@ ("ril" :> << "r", "i", "l" >>)
    @@ ("magh" :> << "m", "a", "g", "h" >>)
    @@ ("duu" :> << "d", "u", "u" >>)
    @@ ("bi" :> << "b", "i" >>)
    @@ ("lad" :> << "l", "a", "d" >>)
    @@ ("dhaal" :> << "d", "h", "a", "a", "l" >>)
    @@ ("liin" :> << "l", "i", "i", "n" >>)

-----------------------------------------------------------------------------
(* Bounds of the model *)

\* longest landmark sequence tried
MaxLen == 32

\* inbound messages handled in one run, all connections together
MaxMsgs == 2

\* single-precision values are the multiples of F32Grid coordinate units
F32Grid == 2

\* calls of disconnect, send_message and broadcast made on the manager itself
MaxCalls == 3

\* frames the clients send in SpecLoop, all connections together
MaxFrames == 3

\* generate_audio calls each process makes in SpecFill
MaxFills == 2

-----------------------------------------------------------------------------
(* Generic helpers *)

Ok(v) == [ok |-> TRUE, val |-> v]

Raise == [ok |-> FALSE]

None == "None"

\* an optional value that is not a string
Nothing == [some |-> FALSE]

Some(v) == [some |-> TRUE, val |-> v]

-----------------------------------------------------------------------------
(* numpy, as far as preprocess_landmarks and _dummy_predict use it.        *)
(* A landmark sequence is [kind, rows]: kind "flat" has rows of numbers,   *)
(* kind "nested" has rows of landmarks, each a row of coordinates.         *)

\* float(x) -> np.float32: round to the nearest single-precision value
Float32(x) == F32Grid * ((2 * x + F32Grid) \div (2 * F32Grid))

SameLen(rows) == \A i, j \in 1..Len(rows) : Len(rows[i]) = Len(rows[j])

\* the shape numpy finds for a nested list, or the ValueError for a ragged one
NpShape(lm) ==
    LET rows == lm.rows
        L == Len(rows)
    IN  IF L = 0 THEN Ok(<< 0 >>)
        ELSE IF ~SameLen(rows) THEN Raise
        ELSE IF lm.kind = "flat" THEN Ok(<< L, Len(rows[1]) >>)
        ELSE IF Len(rows[1]) = 0 THEN Ok(<< L, 0 >>)
        ELSE IF \A i \in 1..L : SameLen(rows[i]) /\ Len(rows[i][1]) = Len(rows[1][1])
             THEN Ok(<< L, Len(rows[1]), Len(rows[1][1]) >>)
        ELSE Raise

\* np.array(landmarks, dtype=np.float32)
NpArrayFloat32(lm) ==
    LET sh == NpShape(lm)
    IN  IF ~sh.ok THEN Raise
        ELSE Ok([shape |-> sh.val,
                 dtype |-> "float32",
                 data  |-> IF Len(sh.val) = 3
                           THEN [i \in 1..Len(lm.rows) |->
                                   [j \in 1..Len(lm.rows[i]) |->
                                      [k \in 1..Len(lm.rows[i][j]) |->
                                         Float32(lm.rows[i][j][k])]]]
                           ELSE [i \in 1..Len(lm.rows) |->
                                   [k \in 1..Len(lm.rows[i]) |->
                                      Float32(lm.rows[i][k])]]])

\* arr.reshape(arr.shape[0], -1) of a 3-D array: rows flattened in C order
Reshape2D(arr) ==
    LET n == arr.shape[2]
        k == arr.shape[3]
    IN  [shape |-> << arr.shape[1], n * k >>,
         dtype |-> arr.dtype,
         data  |-> [i \in 1..arr.shape[1] |->
                      [c \in 1..(n * k) |->
                         arr.data[i][((c - 1) \div k) + 1][((c - 1) % k) + 1]]]]

\* np.zeros((n, w)): float64
NpZeros(n, w) == [i \in 1..n |-> [k \in 1..w |-> 0]]

PadBackRows(padding, rows) == rows \o padding

\* the row order of np.vstack([padding, arr])
PadFrontRows(padding, rows) == padding \o rows

\* np.vstack([padding, arr]) with padding of width w: a 1-D arr counts as
\* one row; the widths must agree; the result is float64
NpVstack(padRows, w, arr) ==
    LET rows2d == IF Len(arr.shape) = 1 THEN << arr.data >> ELSE arr.data
        width  == IF Len(arr.shape) = 1 THEN arr.shape[1] ELSE arr.shape[2]
    IN  IF width # w THEN Raise
        ELSE Ok([shape |-> << Len(padRows) + Len(rows2d), w >>,
                 dtype |-> "float64",
                 data  |-> PadFrontRows(padRows, rows2d)])

\* arr[-n:]
KeepLast(rows, n) == SubSeq(rows, Len(rows) - n + 1, Len(rows))

-----------------------------------------------------------------------------
(* InferenceService.preprocess_landmarks, app/services/inference.py *)

\* The tensor of shape (1, rows, columns), or the ValueError.
preprocess_landmarks(lm) ==
    LET a == NpArrayFloat32(lm)
    IN  IF ~a.ok THEN Raise
        ELSE
          LET arr == IF Len(a.val.shape) = 3 THEN Reshape2D(a.val) ELSE a.val
              n   == arr.shape[1]
              cut == IF n < SEQUENCE_LENGTH
                     THEN NpVstack(NpZeros(SEQUENCE_LENGTH - n, LANDMARK_SIZE),
                                   LANDMARK_SIZE, arr)
                     ELSE IF n > SEQUENCE_LENGTH
                     THEN Ok([arr EXCEPT !.shape[1] = SEQUENCE_LENGTH,
                                         !.data = KeepLast(arr.data, SEQUENCE_LENGTH)])
                     ELSE Ok(arr)
          IN  IF ~cut.ok THEN Raise
              ELSE Ok([shape |-> << 1 >> \o cut.val.shape,
                       dtype |-> cut.val.dtype,
                       data  |-> cut.val.data])

-----------------------------------------------------------------------------
(* Landmark sequences tried *)

\* L frames of w numbers; frame j, coordinate k holds base + j + k
FlatFrames(L, w, base) ==
    [kind |-> "flat", rows |-> [j \in 1..L |-> [k \in 1..w |-> base + j + k]]]

\* L frames of 21 landmarks of 3 coordinates
NestedFrames(L, base) ==
    [kind |-> "nested",
     rows |-> [j \in 1..L |-> [p \in 1..(LANDMARK_SIZE \div 3) |->
                 [q \in 1..3 |-> base + j + 3 * (p - 1) + q]]]]

\* L frames, the last one a coordinate short
RaggedFrames(L, base) ==
    LET f == FlatFrames(L, LANDMARK_SIZE, base)
    IN  IF L = 0 THEN f
        ELSE [f EXCEPT !.rows[L] = SubSeq(f.rows[L], 1, LANDMARK_SIZE - 1)]

SequenceOf(shape, L, base) ==
    CASE shape = "flat"   -> FlatFrames(L, LANDMARK_SIZE, base)
      [] shape = "nested" -> NestedFrames(L, base)
      [] shape = "narrow" -> FlatFrames(L, LANDMARK_SIZE - 1, base)
      [] shape = "ragged" -> RaggedFrames(L, base)

Shapes == {"flat", "nested", "narrow", "ragged"}

WindowInputs ==
    {[shape |-> sh, len |-> L, base |-> b] : sh \in Shapes, L \in 0..MaxLen, b \in {0, 1}}

Input(d) == SequenceOf(d.shape, d.len, d.base)

-----------------------------------------------------------------------------
(* InferenceService.predict and _dummy_predict, app/services/inference.py. *)
(* The trained network and the random module are not computed: predict is  *)
(* the set of triples a call can return.  Each triple carries two notes    *)
(* that the Python tuple does not: whether an exception was caught on the  *)
(* way (fault), and the code path that built it.                           *)

Prediction(label, confidence, class_idx, fault, path) ==
    [label |-> label, confidence |-> confidence, class_idx |-> class_idx,
     fault |-> fault, path |-> path]

LabelAtOffByOne(class_idx) == LABELS[IF class_idx = 0 THEN NumLabels ELSE class_idx]

\* self.labels[class_idx]
LabelAt(class_idx) == LABELS[class_idx + 1]

\* the draws of one _dummy_predict call tried: int(variance * 1000), whether
\* random.random() < 0.3, random.randint(0, len(self.labels) - 1) and
\* random.uniform(0.7, 0.95)
DummyDrawsTried ==
    {[variance_milli |-> 99 + NumLabels, reroll |-> FALSE, randint |-> 0,
      uniform |-> 7000],
     [variance_milli |-> 0, reroll |-> TRUE, randint |-> 0,
      uniform |-> 9500]}

\* what the trained network is taken to return: the arg-max of the softmax
\* and its value
ModelOutputsTried ==
    {[class_idx |-> 0, confidence |-> 4996],
     [class_idx |-> 37, confidence |-> CONFIDENCE_THRESHOLD],
     [class_idx |-> 0, confidence |-> 9000]}

\* return self.labels[0], 0.5, 0
DummyFallback == Prediction(LABELS[1], ConfOne \div 2, 0, TRUE, "fallback")

\* int(variance * 1000) % len(self.labels)
HeuristicIdx(v) == v % NumLabels

DummyPredictUnguarded(lm, fault) ==
    LET sh   == NpShape(lm)
        size == IF Len(sh.val) = 1 THEN sh.val[1]
                ELSE IF Len(sh.val) = 2 THEN sh.val[1] * sh.val[2]
                ELSE sh.val[1] * sh.val[2] * sh.val[3]
    IN  IF ~sh.ok \/ size = 0 THEN {Raise}
        ELSE {Prediction(LabelAt(HeuristicIdx(d.variance_milli)), d.uniform,
                         HeuristicIdx(d.variance_milli), fault, "dummy") :
                 d \in DummyDrawsTried}

\* np.array(landmarks) raises on a ragged list; np.var of an empty array is
\* nan and int(nan) raises; labels[class_idx] raises out of range
_dummy_predict(lm, fault) ==
    LET sh   == NpShape(lm)
        size == IF Len(sh.val) = 1 THEN sh.val[1]
                ELSE IF Len(sh.val) = 2 THEN sh.val[1] * sh.val[2]
                ELSE sh.val[1] * sh.val[2] * sh.val[3]
        idx(d) == IF d.reroll THEN d.randint ELSE HeuristicIdx(d.variance_milli)
    IN  IF ~sh.ok \/ size = 0 THEN {DummyFallback}
        ELSE {IF idx(d) \in 0..(NumLabels - 1)
              THEN Prediction(LabelAt(idx(d)), d.uniform, idx(d), fault, "dummy")
              ELSE DummyFallback : d \in DummyDrawsTried}

\* LSTMModel(input_size=LANDMARK_SIZE) with float32 weights: forward raises on
\* a tensor of another width or dtype
ModelAccepts(t) ==
    /\ Len(t.shape) = 3
    /\ t.shape[3] = LANDMARK_SIZE
    /\ t.dtype = "float32"

predict(lm, dummy) ==
    IF dummy THEN _dummy_predict(lm, FALSE)
    ELSE LET t == preprocess_landmarks(lm)
         IN  IF t.ok /\ ModelAccepts(t.val)
             THEN {Prediction(LabelAt(o.class_idx), o.confidence, o.class_idx,
                              FALSE, "model") : o \in ModelOutputsTried}
             ELSE _dummy_predict(lm, TRUE)

\* the shape of the array np.var is taken of in _dummy_predict: the list as
\* given, a 3-D one reshaped to (frames, -1)
HeuristicInput(lm) ==
    LET sh == NpShape(lm)
    IN  IF ~sh.ok THEN Raise
        ELSE IF Len(sh.val) = 3 THEN Ok(<< sh.val[1], sh.val[2] * sh.val[3] >>)
        ELSE Ok(sh.val)

\* the shape of the tensor self.model is called with, less its batch
\* dimension
ModelInput(lm) ==
    LET t == preprocess_landmarks(lm)
    IN  IF ~t.ok THEN Raise ELSE Ok(Tail(t.val.shape))

\* the shape of the data the strategy that built a triple computed it from;
\* the fallback triple is a constant
StrategyInput(lm, path) ==
    CASE path = "model" -> ModelInput(lm)
      [] path = "dummy" -> HeuristicInput(lm)
      [] OTHER -> Raise

-----------------------------------------------------------------------------
(* TTSService, app/services/tts_service.py.  Audio bytes are not computed: *)
(* the bytes gTTS returns for a text are << "mp3", text >>, a write that   *)
(* fails part-way leaves << "cut", text >> or the empty file.              *)

UpperCase == << "A", "B", "C", "D", "E", "F", "G", "H", "I", "J", "K", "L", "M",
                "N", "O", "P", "Q", "R", "S", "T", "U", "V", "W", "X", "Y", "Z" >>

LowerCase == << "a", "b", "c", "d", "e", "f", "g", "h", "i", "j", "k", "l", "m",
                "n", "o", "p", "q", "r", "s", "t", "u", "v", "w", "x", "y", "z" >>

Digits == {"0", "1", "2", "3", "4", "5", "6", "7", "8", "9"}

Range(f) == {f[i] : i \in DOMAIN f}

\* c.isalnum() or c in ('-', '_')
SafeChar(c) == c \in Range(UpperCase) \cup Range(LowerCase) \cup Digits \cup {"-", "_"}

\* str.lower() of one character
Lower(c) ==
    IF c \in Range(UpperCase)
    THEN LowerCase[CHOOSE i \in DOMAIN UpperCase : UpperCase[i] = c]
    ELSE c

RECURSIVE Sanitize(_)
Sanitize(chars) ==
    IF chars = << >> THEN << >>
    ELSE (IF SafeChar(Head(chars)) THEN << Lower(Head(chars)) >> ELSE << >>)
         \o Sanitize(Tail(chars))

\* the file name within cache_dir
_get_cache_path(label) == Sanitize(Spell[label]) \o << ".", "m", "p", "3" >>

\* _get_cache_path of every vocabulary label
CachePathOf == [l \in Range(LABELS) |-> _get_cache_path(l)]

\* self.pronunciation_map.get(label, label)
ArabicText(label) ==
    IF label \in DOMAIN ARABIC_PRONUNCIATION THEN ARABIC_PRONUNCIATION[label] ELSE label

\* gTTS(text=..., lang=self.language, slow=True) written to a buffer
Synthesize(text) == << "mp3", text >>

EmptyBytes == << >>

\* base64.b64encode(audio_data).decode('utf-8')
B64(data) == IF data = EmptyBytes THEN "" ELSE << "b64", data >>

\* what a cache miss can do: gTTS raises; the file is written; the write
\* raises with the file created empty or cut short
SynthOutcomes == {"ok", "synth_error", "write_error_empty", "write_error_cut"}

NoAudio == << None, None >>

GenerateNoCache(files, on, label, outcome) ==
    LET path == CachePathOf[label]
        data == Synthesize(ArabicText(label))
    IN  IF ~on THEN [ret |-> NoAudio, cache |-> files, synth |-> 0]
        ELSE IF outcome = "ok"
        THEN [ret |-> << B64(data), "mp3" >>,
              cache |-> (path :> data) @@ files,
              synth |-> 1]
        ELSE [ret |-> NoAudio, cache |-> files, synth |-> 1]

\* generate_audio on the cache `files` with the service switched `on`:
\* the pair returned, the files afterwards, the number of gTTS calls
generate_audio(files, on, label, outcome) ==
    LET path == CachePathOf[label]
        data == Synthesize(ArabicText(label))
        put(d) == (path :> d) @@ files
    IN  IF ~on THEN [ret |-> NoAudio, cache |-> files, synth |-> 0]
        ELSE IF path \in DOMAIN files
        THEN [ret |-> << B64(files[path]), "mp3" >>, cache |-> files, synth |-> 0]
        ELSE CASE outcome = "ok" ->
                    [ret |-> << B64(data), "mp3" >>, cache |-> put(data), synth |-> 1]
               [] outcome = "synth_error" ->
                    [ret |-> NoAudio, cache |-> files, synth |-> 1]
               [] outcome = "write_error_empty" ->
                    [ret |-> NoAudio, cache |-> put(EmptyBytes), synth |-> 1]
               [] outcome = "write_error_cut" ->
                    [ret |-> NoAudio, cache |-> put(<< "cut", ArabicText(label) >>), synth |-> 1]

ClearCacheKeepOne(files) ==
    IF DOMAIN files = {} THEN [count |-> 0, cache |-> files]
    ELSE LET keep == CHOOSE f \in DOMAIN files : TRUE
         IN  [count |-> Cardinality(DOMAIN files) - 1,
              cache |-> [f \in {keep} |-> files[f]]]

\* clear_cache: every *.mp3 file unlinked and counted
clear_cache(files) ==
    [count |-> Cardinality(DOMAIN files), cache |-> << >>]

-----------------------------------------------------------------------------
(* State shared by the specifications *)

Conns == {"w1", "w2"}

Ids == {"s1", "s2"}

\* the session ids each client may ask for
IdsTried == [c \in Conns |-> IF c = "w1" THEN {"s1"} ELSE Ids]

\* whether the commit of the session_logs row at connect succeeds: a failure
\* is tried for the second client
ConnectCommitsTried == [c \in Conns |-> IF c = "w1" THEN {TRUE} ELSE BOOLEAN]

\* what a cache miss is taken to do while a landmarks message is handled
PipelineSynthOutcomes == {"ok", "synth_error", "write_error_empty"}

NoFiles == << >>

NoCall ==
    [op |-> "none", label |-> None, ret |-> NoAudio, synth |-> 0,
     before |-> Nothing, count |-> 0, had |-> {}, after_clear |-> FALSE,
     calls |-> 0, made |-> {}]

\* the processes that run generate_audio on one cache directory: the server
\* and the script generate_audio.py
Callers == {"server", "script"}

\* no generate_audio call is in progress and none has returned
NoFill ==
    [pc |-> "idle", label |-> None, audio_data |-> Nothing, ret |-> Nothing,
     calls |-> 0]

NoMessage ==
    [seq |-> 0, conn |-> None, type |-> None, frame |-> None, input |-> Nothing,
     cls |-> Nothing, sent |-> << >>, to |-> None, stats_before |-> Nothing, stats_after |-> Nothing,
     rows_added |-> 0, tts_calls |-> 0, synth_calls |-> 0, audio |-> NoAudio,
     cache_same |-> TRUE, registered |-> FALSE, transport |-> None,
     send_raised |-> FALSE,
     registry_same |-> TRUE, logs_same |-> TRUE, log_tries |-> 0,
     log_failed |-> FALSE, pc_after |-> None]

NoTeardown ==
    [n |-> 0, conn |-> None, sid |-> None, had_entry |-> FALSE, own_entry |-> FALSE,
     others_same |-> TRUE, handlers_same |-> TRUE, gone |-> TRUE]

EmptyRegistry == [active_connections |-> << >>, session_data |-> << >>, order |-> << >>]

NoManagerCall ==
    [n |-> 0, op |-> None, id |-> None, before |-> EmptyRegistry,
     after |-> EmptyRegistry, twice |-> EmptyRegistry, to |-> None,
     send_raised |-> FALSE, raised |-> FALSE]

NoBroadcast ==
    [status |-> "idle", pos |-> 0, used |-> 0, attempted |-> {}, start |-> << >>]

InferenceIdle == landmarks = Nothing /\ window = Nothing /\ triple = Nothing

TtsIdle ==
    /\ cache = NoFiles
    /\ tts = NoCall
    /\ served = << >>
    /\ fill = [k \in Callers |-> NoFill]

ServerIdle ==
    /\ active_connections = << >>
    /\ session_data = << >>
    /\ pc = [c \in Conns |-> "new"]
    /\ sid = [c \in Conns |-> None]
    /\ ws_open = [c \in Conns |-> TRUE]
    /\ gesture_predictions = << >>
    /\ session_logs = << >>
    /\ db_dirty = [c \in Conns |-> FALSE]
    /\ last = NoMessage
    /\ ended = NoTeardown
    /\ order = << >>
    /\ mgr = NoManagerCall
    /\ bc = NoBroadcast
    /\ torn = [c \in Conns |-> 0]
    /\ running = None
    /\ inbox = [c \in Conns |-> << >>]
    /\ taken = [c \in Conns |-> 0]
    /\ cur = [c \in Conns |-> Nothing]
    /\ handed = [c \in Conns |-> << >>]
    /\ produced = [c \in Conns |-> 0]

inferenceVars == << landmarks, window, triple >>

ttsVars == << cache, tts, served, fill >>

\* the event loop and the sockets' traffic, which only SpecLoop follows
loopVars == << running, inbox, taken, cur, handed, produced >>

serverVars ==
    << active_connections, session_data, pc, sid, ws_open, gesture_predictions,
       session_logs, db_dirty, last, ended, order, mgr, bc, torn, loopVars >>

\* what the handlers of websocket_endpoint leave alone
managerCallVars == << mgr, bc >>

-----------------------------------------------------------------------------
(* SpecInference: preprocess_landmarks and predict applied to one sequence *)

InitInference ==
    /\ landmarks \in {Some(d) : d \in WindowInputs}
    /\ window = Nothing
    /\ triple = Nothing
    /\ use_dummy \in BOOLEAN
    /\ enabled = TRUE
    /\ TtsIdle
    /\ ServerIdle

Preprocess ==
    /\ ~window.some
    /\ window' = Some(preprocess_landmarks(Input(landmarks.val)))
    /\ UNCHANGED << landmarks, triple, use_dummy, enabled, ttsVars, serverVars >>

Predict ==
    /\ ~triple.some
    /\ \E r \in predict(Input(landmarks.val), use_dummy) : triple' = Some(r)
    /\ UNCHANGED << landmarks, window, use_dummy, enabled, ttsVars, serverVars >>

NextInference == Preprocess \/ Predict

SpecInference == InitInference /\ [][NextInference]_vars

-----------------------------------------------------------------------------
(* Calls on the TTSService singleton.  tts records the last call, with what *)
(* generate_audio last returned for the label before it (before), the file  *)
(* names a clear found (had) and whether the call before was a clear.       *)

\* what served holds after generate_audio(label) returned g
Remember(srv, label, g) ==
    IF g.ret = NoAudio THEN srv
    ELSE (label :> [ret |-> g.ret, synth |-> g.synth]) @@ srv

\* what generate_audio last returned for the label, if it returned audio
ServedFor(srv, label) == IF label \in DOMAIN srv THEN Some(srv[label]) ELSE Nothing

\* one call of generate_audio on the singleton
CallGenerateAudio(label, outcome) ==
    LET g == generate_audio(cache, enabled, label, outcome)
    IN  /\ cache' = g.cache
        /\ served' = Remember(served, label, g)
        /\ tts' = [op |-> "generate_audio", label |-> label, ret |-> g.ret,
                   synth |-> g.synth, before |-> ServedFor(served, label), count |-> 0,
                   had |-> IF tts.op = "clear_cache" THEN tts.had ELSE {},
                   after_clear |-> tts.op = "clear_cache",
                   calls |-> 1,
                   made |-> IF g.synth = 1 /\ g.ret # NoAudio THEN {label} ELSE {}]
        /\ UNCHANGED fill

\* pregenerate_all on the labels lo..hi in turn, from the state st: one
\* generate_audio per label, gTTS failing for the labels in bad; calls
\* counts the generate_audio calls, made holds the labels synthesised
RECURSIVE PregenerateRange(_, _, _, _, _)
PregenerateRange(lo, hi, st, on, bad) ==
    IF lo > hi THEN st
    ELSE IF lo = hi
    THEN LET g == generate_audio(st.cache, on, LABELS[lo],
                                 IF LABELS[lo] \in bad THEN "synth_error" ELSE "ok")
         IN  [cache |-> g.cache,
              served |-> Remember(st.served, LABELS[lo], g),
              synth |-> st.synth + g.synth,
              calls |-> st.calls + 1,
              made |-> IF g.synth = 1 /\ g.ret # NoAudio
                       THEN st.made \cup {LABELS[lo]} ELSE st.made]
    ELSE LET mid  == (lo + hi) \div 2
             done == PregenerateRange(lo, mid, st, on, bad)
         IN  IF done.synth >= 0 THEN PregenerateRange(mid + 1, hi, done, on, bad) ELSE done

PregenerateUntilFailure(files, srv, on, bad) ==
    PregenerateRange(1, IF bad = {} THEN NumLabels ELSE 1,
                     [cache |-> files, served |-> srv, synth |-> 0, calls |-> 0,
                      made |-> {}], on, bad)

\* for label in settings.LABELS: self.generate_audio(label)
pregenerate_all(files, srv, on, bad) ==
    PregenerateRange(1, NumLabels,
                     [cache |-> files, served |-> srv, synth |-> 0, calls |-> 0,
                      made |-> {}], on, bad)

\* labels the routes are called with, and for which gTTS may fail in a pre-warm
TtsLabelsTried == {"Alif", "Ta", "ta"}

\* POST /tts/generate/{label}, app/api/routes.py
GenerateTts(label, outcome) ==
    /\ label \in Range(LABELS)
    /\ CallGenerateAudio(label, outcome)
    /\ UNCHANGED << use_dummy, enabled, inferenceVars, serverVars >>

\* POST /tts/pregenerate
PregenerateTts(bad) ==
    LET p == pregenerate_all(cache, served, enabled, bad)
    IN  /\ cache' = p.cache
        /\ served' = p.served
        /\ tts' = [NoCall EXCEPT !.op = "pregenerate_all", !.synth = p.synth,
                                 !.calls = p.calls, !.made = p.made]
        /\ UNCHANGED << use_dummy, enabled, inferenceVars, fill, serverVars >>

\* DELETE /tts/cache
ClearTtsCache ==
    LET c == clear_cache(cache)
    IN  /\ cache' = c.cache
        /\ served' = << >>
        /\ tts' = [NoCall EXCEPT !.op = "clear_cache", !.count = c.count,
                                 !.had = DOMAIN cache]
        /\ UNCHANGED << use_dummy, enabled, inferenceVars, fill, serverVars >>

InitTts ==
    /\ InferenceIdle
    /\ use_dummy = TRUE
    /\ enabled \in BOOLEAN
    /\ TtsIdle
    /\ ServerIdle

NextTts ==
    \/ \E label \in TtsLabelsTried, outcome \in SynthOutcomes : GenerateTts(label, outcome)
    \/ \E bad \in SUBSET TtsLabelsTried : PregenerateTts(bad)
    \/ ClearTtsCache

SpecTts == InitTts /\ [][NextTts]_vars

-----------------------------------------------------------------------------
(* SpecFill: generate_audio run by the server and by the script             *)
(* generate_audio.py at the same time on one cache directory, a system call *)
(* at a time.  gTTS answers and the disk takes every write.                 *)

\* the labels the server is asked for; the script goes through LABELS in order
FillLabelsTried == {LABELS[i] : i \in 1..MaxFills}

\* the label of the next generate_audio call of the caller k
FillLabelsOf(k) ==
    IF k = "script" THEN {LABELS[fill[k].calls + 1]} ELSE FillLabelsTried

FillUnchanged ==
    UNCHANGED << use_dummy, enabled, inferenceVars, tts, served, serverVars >>

\* generate_audio(label) is entered with the service enabled
FillBegin(k, label) ==
    /\ fill[k].pc = "idle"
    /\ fill[k].calls < MaxFills
    /\ enabled
    /\ fill' = [fill EXCEPT ![k] = [pc |-> "exists", label |-> label,
                                    audio_data |-> Nothing, ret |-> Nothing,
                                    calls |-> fill[k].calls + 1]]
    /\ UNCHANGED cache
    /\ FillUnchanged

\* if cache_path.exists()
FillExists(k) ==
    /\ fill[k].pc = "exists"
    /\ fill' = [fill EXCEPT ![k].pc =
                  IF CachePathOf[fill[k].label] \in DOMAIN cache
                  THEN "read" ELSE "synthesize"]
    /\ UNCHANGED cache
    /\ FillUnchanged

\* with open(cache_path, 'rb') as f: audio_data = f.read()
FillRead(k) ==
    /\ fill[k].pc = "read"
    /\ fill' = [fill EXCEPT ![k] =
                  IF CachePathOf[fill[k].label] \in DOMAIN cache
                  THEN [@ EXCEPT !.pc = "return",
                                 !.audio_data = Some(cache[CachePathOf[fill[k].label]])]
                  ELSE [@ EXCEPT !.pc = "idle", !.ret = Some(NoAudio)]]
    /\ UNCHANGED cache
    /\ FillUnchanged

\* gTTS(...).write_to_fp(audio_buffer); audio_data = audio_buffer.read()
FillSynthesize(k) ==
    /\ fill[k].pc = "synthesize"
    /\ fill' = [fill EXCEPT ![k].pc = "open",
                            ![k].audio_data = Some(Synthesize(ArabicText(fill[k].label)))]
    /\ UNCHANGED cache
    /\ FillUnchanged

\* open(cache_path, 'wb'): the file is created, or cut to no bytes
FillOpen(k) ==
    /\ fill[k].pc = "open"
    /\ cache' = (CachePathOf[fill[k].label] :> EmptyBytes) @@ cache
    /\ fill' = [fill EXCEPT ![k].pc = "write"]
    /\ FillUnchanged

\* f.write(audio_data) and the close at the end of the with block
FillWrite(k) ==
    /\ fill[k].pc = "write"
    /\ cache' = (CachePathOf[fill[k].label] :> fill[k].audio_data.val) @@ cache
    /\ fill' = [fill EXCEPT ![k].pc = "return"]
    /\ FillUnchanged

\* return base64_audio, "mp3"
FillReturn(k) ==
    /\ fill[k].pc = "return"
    /\ fill' = [fill EXCEPT ![k].pc = "idle",
                            ![k].ret = Some(<< B64(fill[k].audio_data.val), "mp3" >>)]
    /\ UNCHANGED cache
    /\ FillUnchanged

InitFill ==
    /\ InferenceIdle
    /\ use_dummy = TRUE
    /\ enabled = TRUE
    /\ TtsIdle
    /\ ServerIdle

NextFill ==
    \E k \in Callers :
        \/ \E label \in FillLabelsOf(k) : FillBegin(k, label)
        \/ FillExists(k)
        \/ FillRead(k)
        \/ FillSynthesize(k)
        \/ FillOpen(k)
        \/ FillWrite(k)
        \/ FillReturn(k)

SpecFill == InitFill /\ [][NextFill]_vars

-----------------------------------------------------------------------------
(* Outbound messages, app/api/websocket.py.  Timestamps are left out. *)

ConnectedNoVocabulary(s) ==
    [type |-> "connected", session_id |-> s,
     message |-> "Connected to Iqro Gesture Recognition", labels |-> << >>]

Connected(s) ==
    [type |-> "connected", session_id |-> s,
     message |-> "Connected to Iqro Gesture Recognition", labels |-> LABELS]

Pong == [type |-> "pong"]

LabelsMessage ==
    [type |-> "labels", labels |-> LABELS, arabic_labels |-> ARABIC_LABELS]

ErrorMessage(text) == [type |-> "error", message |-> text]

LowConfidence(confidence) ==
    [type |-> "low_confidence", message |-> "Low confidence prediction",
     confidence |-> confidence]

\* settings.ARABIC_LABELS.get(predicted_label, predicted_label)
ArabicLabel(label) ==
    IF label \in DOMAIN ARABIC_LABELS THEN ARABIC_LABELS[label] ELSE label

\* round(confidence, 3), in thousandths
Round3(confidence) == (confidence + 5) \div 10

\* Python truth of audio_base64: neither None nor the empty string
Truthy(audio_base64) == audio_base64 # None /\ audio_base64 # ""

ResponseAlwaysAudio(r, audio) ==
    [type |-> "prediction", label |-> r.label, arabic |-> ArabicLabel(r.label),
     confidence |-> Round3(r.confidence), class_index |-> r.class_idx,
     audio_base64 |-> audio[1], audio_format |-> audio[2]]

\* the prediction response, with the audio fields if audio is available
PredictionResponse(r, audio) ==
    IF Truthy(audio[1])
    THEN [type |-> "prediction", label |-> r.label, arabic |-> ArabicLabel(r.label),
          confidence |-> Round3(r.confidence), class_index |-> r.class_idx,
          audio_base64 |-> audio[1], audio_format |-> audio[2]]
    ELSE [type |-> "prediction", label |-> r.label, arabic |-> ArabicLabel(r.label),
          confidence |-> Round3(r.confidence), class_index |-> r.class_idx]

-----------------------------------------------------------------------------
(* ConnectionManager, app/api/websocket.py.  The registry is the record    *)
(* [active_connections, session_data, order]: order lists the keys of      *)
(* active_connections as the dict holds them, a deleted key leaving a hole. *)

\* del entry[session_id], if present
Without(entries, s) == [k \in DOMAIN entries \ {s} |-> entries[k]]

FreshStats == [prediction_count |-> 0, last_prediction |-> None]

\* the registry as the state holds it
Registry ==
    [active_connections |-> active_connections, session_data |-> session_data,
     order |-> order]

ConnectWithoutStats(reg, c, s) ==
    [active_connections |-> (s :> c) @@ reg.active_connections,
     session_data |-> reg.session_data,
     order |-> IF s \in DOMAIN reg.active_connections THEN reg.order
               ELSE Append(reg.order, s)]

\* connect: both entries are assigned, whatever was there
connect(reg, c, s) ==
    [active_connections |-> (s :> c) @@ reg.active_connections,
     session_data |-> (s :> FreshStats) @@ reg.session_data,
     order |-> IF s \in DOMAIN reg.active_connections THEN reg.order
               ELSE Append(reg.order, s)]

DisconnectAll(reg, s) ==
    [active_connections |-> << >>, session_data |-> << >>,
     order |-> [i \in 1..Len(reg.order) |-> None]]

DisconnectInsertsStub(reg, s) ==
    IF s \in DOMAIN reg.active_connections
    THEN [active_connections |-> Without(reg.active_connections, s),
          session_data |-> Without(reg.session_data, s),
          order |-> [i \in 1..Len(reg.order) |->
                       IF reg.order[i] = s THEN None ELSE reg.order[i]]]
    ELSE [reg EXCEPT !.session_data = (s :> FreshStats) @@ reg.session_data]

\* disconnect: each entry is deleted if it is there
disconnect(reg, s) ==
    [active_connections |-> Without(reg.active_connections, s),
     session_data |-> Without(reg.session_data, s),
     order |-> [i \in 1..Len(reg.order) |->
                  IF reg.order[i] = s THEN None ELSE reg.order[i]]]

SendDropsOnFailure(reg, open, s) ==
    IF s \notin DOMAIN reg.active_connections
    THEN [to |-> None, send_raised |-> FALSE, raised |-> FALSE, reg |-> reg]
    ELSE IF open[reg.active_connections[s]]
    THEN [to |-> reg.active_connections[s], send_raised |-> FALSE,
          raised |-> FALSE, reg |-> reg]
    ELSE [to |-> None, send_raised |-> TRUE, raised |-> FALSE,
          reg |-> disconnect(reg, s)]

\* send_message(session_id, message): to is the socket the message is pushed
\* on, send_raised whether send_json raised (the socket is closed), raised
\* whether send_message itself raised, reg the registry afterwards
send_message(reg, open, s) ==
    IF s \notin DOMAIN reg.active_connections
    THEN [to |-> None, send_raised |-> FALSE, raised |-> FALSE, reg |-> reg]
    ELSE IF open[reg.active_connections[s]]
    THEN [to |-> reg.active_connections[s], send_raised |-> FALSE,
          raised |-> FALSE, reg |-> reg]
    ELSE [to |-> None, send_raised |-> TRUE, raised |-> FALSE, reg |-> reg]

UpdateEveryStats(stats, s, label) ==
    [k \in DOMAIN stats |->
       [stats[k] EXCEPT !.prediction_count = @ + 1, !.last_prediction = label]]

\* prediction_count += 1 and last_prediction = label, if the id is registered
UpdateStats(stats, s, label) ==
    IF s \in DOMAIN stats
    THEN [stats EXCEPT ![s].prediction_count = @ + 1, ![s].last_prediction = label]
    ELSE stats

-----------------------------------------------------------------------------
(* The handler coroutine of one connection, websocket_endpoint *)

\* manager.connect, the session_logs row, the welcome message
Connect(c, s, dbok) ==
    /\ pc[c] = "new"
    /\ LET reg == connect(Registry, c, s)
       IN  /\ active_connections' = reg.active_connections
           /\ session_data' = reg.session_data
           /\ order' = reg.order
    /\ session_logs' =
         IF dbok /\ s \notin DOMAIN session_logs
         THEN (s :> [ended |-> FALSE, total_predictions |-> 0]) @@ session_logs
         ELSE session_logs
    /\ sid' = [sid EXCEPT ![c] = s]
    /\ pc' = [pc EXCEPT ![c] = "receive"]
    /\ UNCHANGED << use_dummy, enabled, inferenceVars, ttsVars, ws_open,
                    gesture_predictions, db_dirty, last, ended, managerCallVars,
                    torn, loopVars >>

\* the client closes its end of the socket
ClientClose(c) ==
    /\ pc[c] = "receive"
    /\ ws_open[c]
    /\ ws_open' = [ws_open EXCEPT ![c] = FALSE]
    /\ UNCHANGED << use_dummy, enabled, inferenceVars, ttsVars, active_connections,
                    session_data, pc, sid, gesture_predictions, session_logs,
                    db_dirty, last, ended, order, managerCallVars,
                    torn, loopVars >>

\* the entries of the ids other than s are the same in both registries
OthersSame(before, after, s) ==
    /\ DOMAIN after.active_connections \ {s} = DOMAIN before.active_connections \ {s}
    /\ DOMAIN after.session_data \ {s} = DOMAIN before.session_data \ {s}
    /\ \A y \in DOMAIN before.active_connections \ {s} :
         after.active_connections[y] = before.active_connections[y]
    /\ \A y \in DOMAIN before.session_data \ {s} :
         after.session_data[y] = before.session_data[y]

FinallyLoopsOn(c, dbok) ==
    /\ session_logs' = session_logs
    /\ db_dirty' = [db_dirty EXCEPT ![c] = FALSE]
    /\ torn' = [torn EXCEPT ![c] = @ + 1]
    /\ LET reg == disconnect(Registry, sid[c])
       IN  /\ active_connections' = reg.active_connections
           /\ session_data' = reg.session_data
           /\ order' = reg.order
           /\ pc' = pc
           /\ ended' = [ended EXCEPT !.n = @ + 1, !.conn = c, !.sid = sid[c]]

\* the finally block of websocket_endpoint: the session_logs row is closed,
\* manager.disconnect, db.close
Finally(c, dbok) ==
    /\ session_logs' =
         IF dbok /\ ~db_dirty[c] /\ sid[c] \in DOMAIN session_logs
         THEN [session_logs EXCEPT ![sid[c]] =
                 [ended |-> TRUE,
                  total_predictions |->
                     IF sid[c] \in DOMAIN session_data
                     THEN session_data[sid[c]].prediction_count ELSE 0]]
         ELSE session_logs
    /\ db_dirty' = [db_dirty EXCEPT ![c] = FALSE]
    /\ torn' = [torn EXCEPT ![c] = @ + 1]
    /\ LET reg == disconnect(Registry, sid[c])
       IN  /\ active_connections' = reg.active_connections
           /\ session_data' = reg.session_data
           /\ order' = reg.order
           /\ pc' = [pc EXCEPT ![c] = "done"]
           /\ ended' =
                [n |-> ended.n + 1, conn |-> c, sid |-> sid[c],
                 had_entry |-> sid[c] \in DOMAIN active_connections,
                 own_entry |-> /\ sid[c] \in DOMAIN active_connections
                               /\ active_connections[sid[c]] = c,
                 others_same |-> OthersSame(Registry, reg, sid[c]),
                 handlers_same |-> \A d \in Conns \ {c} : pc'[d] = pc[d],
                 gone |-> /\ sid[c] \notin DOMAIN reg.active_connections
                          /\ sid[c] \notin DOMAIN reg.session_data]

\* receive_text raises WebSocketDisconnect: the handler leaves its loop
Teardown(c, dbok) ==
    /\ pc[c] = "receive"
    /\ ~ws_open[c]
    /\ Finally(c, dbok)
    /\ UNCHANGED << use_dummy, enabled, inferenceVars, ttsVars, sid, ws_open,
                    gesture_predictions, last, managerCallVars,
                    loopVars >>

\* a message is waiting in receive_text
CanReceive(c) == pc[c] = "receive" /\ ws_open[c] /\ last.seq < MaxMsgs

\* session_data.get(session_id)
StatsOf(stats, s) == IF s \in DOMAIN stats THEN Some(stats[s]) ELSE Nothing

\* The record of the message a step handles, read off the step: the messages
\* passed to send_message and the socket they went to, the session's stats
\* before and after, the rows added to gesture_predictions, the calls of
\* generate_audio and of gTTS, the audio returned, whether the cache files,
\* the registry and the session log are the same, whether the id was
\* registered and to which socket, the inserts tried and whether one failed,
\* and where the handler is afterwards.
Handled(c, type, input, cls, sent, called, tries, failed) ==
    LET push == send_message(Registry, ws_open, sid[c])
    IN  [seq |-> last.seq + 1, conn |-> c, type |-> type, frame |-> None,
         input |-> input, cls |-> cls, sent |-> sent,
         to |-> IF sent = << >> THEN None ELSE push.to,
         stats_before |-> StatsOf(session_data, sid[c]),
         stats_after |-> StatsOf(session_data', sid[c]),
         rows_added |-> Len(gesture_predictions') - Len(gesture_predictions),
         tts_calls |-> IF called THEN 1 ELSE 0,
         synth_calls |-> IF called THEN tts'.synth ELSE 0,
         audio |-> IF called THEN tts'.ret ELSE NoAudio,
         cache_same |-> cache' = cache,
         registered |-> sid[c] \in DOMAIN active_connections,
         transport |-> IF sid[c] \in DOMAIN active_connections
                       THEN active_connections[sid[c]] ELSE None,
         send_raised |-> sent # << >> /\ push.send_raised,
         registry_same |-> /\ active_connections' = active_connections
                           /\ DOMAIN session_data' = DOMAIN session_data
                           /\ order' = order,
         logs_same |-> session_logs' = session_logs,
         log_tries |-> tries,
         log_failed |-> failed,
         pc_after |-> pc'[c]]

\* a message that is answered, or ignored, without touching any state
Reply(c, type, sent) ==
    /\ CanReceive(c)
    /\ UNCHANGED << use_dummy, enabled, inferenceVars, ttsVars, active_connections,
                    session_data, pc, sid, ws_open, gesture_predictions,
                    session_logs, db_dirty, ended, order, managerCallVars,
                    torn, loopVars >>
    /\ last' = Handled(c, type, Nothing, Nothing, sent, FALSE, 0, FALSE)

PingUnanswered(c) == Reply(c, "ping", << >>)

HandlePing(c) == Reply(c, "ping", << Pong >>)

GetLabelsSendsVocabularyOnly(c) ==
    Reply(c, "get_labels", << [type |-> "labels", labels |-> LABELS] >>)

HandleGetLabels(c) == Reply(c, "get_labels", << LabelsMessage >>)

UnknownAnsweredWithError(c) ==
    Reply(c, "unknown", << ErrorMessage("Unknown message type") >>)

\* any other type, or none: logged and ignored
HandleUnknown(c) == Reply(c, "unknown", << >>)

\* text frames that are not a JSON object: one that is no JSON at all, the
\* literal NaN, which is no JSON either, and a JSON array
TextFramesTried == {"not json", "NaN", "[1, 2]"}

\* whether the frame is a JSON text (RFC 8259)
ValidJson(frame) == frame = "[1, 2]"

\* json.loads(data): raises JSONDecodeError on "not json"; the Python decoder
\* reads NaN as a float; val is the type of the value decoded
json_loads(frame) ==
    CASE frame = "not json" -> Raise
      [] frame = "NaN"      -> Ok("float")
      [] frame = "[1, 2]"   -> Ok("list")

\* json.loads raises JSONDecodeError
HandleInvalidJson(c) ==
    \E frame \in {f \in TextFramesTried : ~json_loads(f).ok} :
        /\ CanReceive(c)
        /\ UNCHANGED << use_dummy, enabled, inferenceVars, ttsVars,
                        active_connections, session_data, pc, sid, ws_open,
                        gesture_predictions, session_logs, db_dirty, ended, order,
                        managerCallVars,
                    torn, loopVars >>
        /\ last' = [Handled(c, "invalid_json", Nothing, Nothing,
                            << ErrorMessage("Invalid JSON format") >>, FALSE, 0, FALSE)
                       EXCEPT !.frame = frame]

\* json.loads returns a value that is no dict: message.get raises
\* AttributeError, which only the outer except catches; the handler leaves
\* its loop, runs the finally block and returns, and the socket is closed
HandleNonObject(c, dbok) ==
    \E frame \in {f \in TextFramesTried : json_loads(f).ok} :
        /\ CanReceive(c)
        /\ Finally(c, dbok)
        /\ ws_open' = [ws_open EXCEPT ![c] = FALSE]
        /\ UNCHANGED << use_dummy, enabled, inferenceVars, ttsVars, sid,
                        gesture_predictions, managerCallVars,
                    loopVars >>
        /\ last' = [Handled(c, "non_object", Nothing, Nothing, << >>, FALSE, 0, FALSE)
                       EXCEPT !.frame = frame]

\* landmark sequences the clients send
SequencesTried ==
    {[shape |-> "flat", len |-> L, base |-> 0] :
        L \in {0, MIN_FRAMES - 1, MIN_FRAMES, SEQUENCE_LENGTH}} \cup
    {[shape |-> "narrow", len |-> MIN_FRAMES, base |-> 0],
     [shape |-> "ragged", len |-> MIN_FRAMES, base |-> 0]}

\* data.sequence of a message: one of the sequences, or absent
SequenceFields == {Nothing} \cup {Some(d) : d \in SequencesTried}

\* the number of frames of each sequence tried, len(sequence)
FramesTried == [d \in SequencesTried |-> Len(Input(d).rows)]

\* whether every frame of a sequence tried is LANDMARK_SIZE numbers
FlatTried ==
    [d \in SequencesTried |->
       \A i \in 1..Len(Input(d).rows) : Len(Input(d).rows[i]) = LANDMARK_SIZE]

TooShortForWindow(input) ==
    ~input.some \/ FramesTried[input.val] < SEQUENCE_LENGTH

\* not sequence or len(sequence) < 10; an absent sequence is []
TooShort(input) ==
    ~input.some \/ FramesTried[input.val] = 0
                \/ FramesTried[input.val] < MIN_FRAMES

NeverBelowThreshold(confidence) == FALSE

BelowOrAtThreshold(confidence) == confidence <= CONFIDENCE_THRESHOLD

\* confidence < settings.CONFIDENCE_THRESHOLD
BelowThreshold(confidence) == confidence < CONFIDENCE_THRESHOLD

\* inference_service.predict(sequence) for the sequences tried
PredictTried == [d \in SequencesTried, dummy \in BOOLEAN |-> predict(Input(d), dummy)]

LogPredictionRetry(rows, dirty, row, dbok) ==
    IF dbok /\ ~dirty
    THEN [rows |-> Append(rows, row), dirty |-> FALSE, tries |-> 1, failed |-> FALSE]
    ELSE [rows |-> Append(rows, row), dirty |-> FALSE, tries |-> 2, failed |-> TRUE]

\* db.add(prediction); db.commit() in its try: one attempt; a failed commit
\* is logged and leaves the db session waiting for a rollback
LogPrediction(rows, dirty, row, dbok) ==
    IF dbok /\ ~dirty
    THEN [rows |-> Append(rows, row), dirty |-> FALSE, tries |-> 1, failed |-> FALSE]
    ELSE [rows |-> rows, dirty |-> TRUE, tries |-> 1, failed |-> TRUE]

\* process_landmarks: input is data.sequence (Nothing when absent), r the
\* triple predict returns, outcome what a cache miss does, dbok whether the
\* insert into gesture_predictions commits
HandleLandmarks(c, input) ==
    /\ CanReceive(c)
    /\ UNCHANGED << use_dummy, enabled, inferenceVars, active_connections, pc, sid,
                    ws_open, session_logs, ended, order, managerCallVars,
                    torn, loopVars >>
    /\ IF TooShort(input)
       THEN /\ UNCHANGED << ttsVars, session_data, gesture_predictions, db_dirty >>
            /\ last' = Handled(c, "landmarks", input, Nothing,
                               << ErrorMessage("Insufficient landmark data") >>,
                               FALSE, 0, FALSE)
       ELSE \E r \in PredictTried[input.val, use_dummy] :
              IF BelowThreshold(r.confidence)
              THEN /\ UNCHANGED << ttsVars, session_data, gesture_predictions,
                                   db_dirty >>
                   /\ last' = Handled(c, "landmarks", input, Some(r),
                                      << LowConfidence(r.confidence) >>,
                                      FALSE, 0, FALSE)
              ELSE \E outcome \in PipelineSynthOutcomes, dbok \in BOOLEAN :
                   LET logged == LogPrediction(gesture_predictions, db_dirty[c],
                                               [session_id |-> sid[c],
                                                predicted_label |-> r.label,
                                                confidence |-> r.confidence],
                                               dbok)
                   IN  /\ CallGenerateAudio(r.label, outcome)
                       /\ gesture_predictions' = logged.rows
                       /\ db_dirty' = [db_dirty EXCEPT ![c] = logged.dirty]
                       /\ session_data' = UpdateStats(session_data, sid[c], r.label)
                       /\ last' = Handled(c, "landmarks", input, Some(r),
                                          << PredictionResponse(r, tts'.ret) >>,
                                          TRUE, logged.tries, logged.failed)

\* landmarks messages whose envelope is not the expected one: data is a list
\* (data.get raises AttributeError), sequence is a number (len raises
\* TypeError)
EnvelopeFaultsTried == {"data_not_object", "sequence_not_sized"}

\* str(e) of the exception process_landmarks catches
ProcessingError(fault) ==
    IF fault = "data_not_object"
    THEN "Processing error: 'list' object has no attribute 'get'"
    ELSE "Processing error: object of type 'int' has no len()"

FaultAnswered(c, fault, sent) ==
    /\ CanReceive(c)
    /\ UNCHANGED << use_dummy, enabled, inferenceVars, ttsVars, active_connections,
                    session_data, pc, sid, ws_open, gesture_predictions,
                    session_logs, db_dirty, ended, order, managerCallVars,
                    torn, loopVars >>
    /\ last' = [Handled(c, "landmarks_fault", Nothing, Nothing, sent, FALSE, 0, FALSE)
                   EXCEPT !.frame = fault]

BadEnvelopeUnanswered(c, fault) == FaultAnswered(c, fault, << >>)

\* process_landmarks on such a message: the exception is raised before
\* anything is changed, the except clause logs it and passes one error
\* message to send_message; process_landmarks returns
HandleBadEnvelope(c, fault) ==
    FaultAnswered(c, fault, << ErrorMessage(ProcessingError(fault)) >>)

Init ==
    /\ InferenceIdle
    /\ use_dummy \in BOOLEAN
    /\ enabled \in BOOLEAN
    /\ TtsIdle
    /\ ServerIdle

Next ==
    \/ \E c \in Conns : \E s \in IdsTried[c], dbok \in ConnectCommitsTried[c] :
          Connect(c, s, dbok)
    \/ \E c \in Conns : ClientClose(c)
    \/ \E c \in Conns, dbok \in BOOLEAN : Teardown(c, dbok)
    \/ \E c \in Conns : HandlePing(c)
    \/ \E c \in Conns : HandleGetLabels(c)
    \/ \E c \in Conns : HandleUnknown(c)
    \/ \E c \in Conns : HandleInvalidJson(c)
    \/ \E c \in Conns, dbok \in BOOLEAN : HandleNonObject(c, dbok)
    \/ \E c \in Conns, input \in SequenceFields : HandleLandmarks(c, input)
    \/ \E c \in Conns, fault \in EnvelopeFaultsTried : HandleBadEnvelope(c, fault)

Spec == Init /\ [][Next]_vars

-----------------------------------------------------------------------------
(* SpecManager: the ConnectionManager under connections that come and go,  *)
(* with disconnect, send_message and broadcast also called on it directly  *)

\* the ids the direct calls name: those in use and one never connected
IdsCalled == Ids \cup {"s3"}

\* the keys a dict iterator still has before it: those after position pos
KeysAfter(ord, pos) == {i \in (pos + 1)..Len(ord) : ord[i] # None}

\* len(active_connections)
Used(ord) == Cardinality({i \in 1..Len(ord) : ord[i] # None})

LowestOf(positions) == CHOOSE i \in positions : \A j \in positions : i <= j

\* one turn of `for session_id in self.active_connections`: the iterator
\* raises RuntimeError if the dict changed size, stops after the last key,
\* and otherwise yields the next key, which send_message is called with
Iterate(ord, it) ==
    IF Used(ord) # it.used
    THEN [it EXCEPT !.status = "raised"]
    ELSE IF KeysAfter(ord, it.pos) = {}
    THEN [it EXCEPT !.status = "done"]
    ELSE LET i == LowestOf(KeysAfter(ord, it.pos))
         IN  [it EXCEPT !.pos = i, !.attempted = @ \cup {ord[i]}]

\* manager.disconnect(s) called on its own
Disconnect(s) ==
    /\ mgr.n < MaxCalls
    /\ LET reg == disconnect(Registry, s)
       IN  /\ active_connections' = reg.active_connections
           /\ session_data' = reg.session_data
           /\ order' = reg.order
           /\ mgr' = [n |-> mgr.n + 1, op |-> "disconnect", id |-> s,
                      before |-> Registry, after |-> reg,
                      twice |-> disconnect(reg, s), to |-> None,
                      send_raised |-> FALSE, raised |-> FALSE]
    /\ UNCHANGED << use_dummy, enabled, inferenceVars, ttsVars, pc, sid, ws_open,
                    gesture_predictions, session_logs, db_dirty, last, ended, bc,
                    torn, loopVars >>

\* manager.send_message(s, message) called on its own
SendMessage(s) ==
    /\ mgr.n < MaxCalls
    /\ LET push == send_message(Registry, ws_open, s)
       IN  /\ active_connections' = push.reg.active_connections
           /\ session_data' = push.reg.session_data
           /\ order' = push.reg.order
           /\ mgr' = [n |-> mgr.n + 1, op |-> "send_message", id |-> s,
                      before |-> Registry, after |-> push.reg, twice |-> push.reg,
                      to |-> push.to, send_raised |-> push.send_raised,
                      raised |-> push.raised]
    /\ UNCHANGED << use_dummy, enabled, inferenceVars, ttsVars, pc, sid, ws_open,
                    gesture_predictions, session_logs, db_dirty, last, ended, bc,
                    torn, loopVars >>

\* manager.broadcast(message) is called: the iterator is made and the loop
\* runs to its first send, where the coroutine is suspended
BroadcastStart ==
    /\ mgr.n < MaxCalls
    /\ bc.status # "iterating"
    /\ bc' = Iterate(order, [status |-> "iterating", pos |-> 0, used |-> Used(order),
                             attempted |-> {}, start |-> active_connections])
    /\ mgr' = [n |-> mgr.n + 1, op |-> "broadcast", id |-> None,
               before |-> Registry, after |-> Registry, twice |-> Registry,
               to |-> None, send_raised |-> FALSE, raised |-> FALSE]
    /\ UNCHANGED << use_dummy, enabled, inferenceVars, ttsVars, active_connections,
                    session_data, pc, sid, ws_open, gesture_predictions,
                    session_logs, db_dirty, last, ended, order,
                    torn, loopVars >>

\* the send the broadcast was suspended in returns, or raises and is caught
\* in send_message, and the loop goes on to its next turn
BroadcastResume ==
    /\ bc.status = "iterating"
    /\ bc' = Iterate(order, bc)
    /\ UNCHANGED << use_dummy, enabled, inferenceVars, ttsVars, active_connections,
                    session_data, pc, sid, ws_open, gesture_predictions,
                    session_logs, db_dirty, last, ended, order, mgr,
                    torn, loopVars >>

\* the services as configured by default, the database answering
InitManager ==
    /\ InferenceIdle
    /\ use_dummy = TRUE
    /\ enabled = TRUE
    /\ TtsIdle
    /\ ServerIdle

NextManager ==
    \/ \E c \in Conns : \E s \in IdsTried[c] : Connect(c, s, TRUE)
    \/ \E c \in Conns : ClientClose(c)
    \/ \E c \in Conns : Teardown(c, TRUE)
    \/ \E s \in IdsCalled : Disconnect(s)
    \/ \E s \in IdsCalled : SendMessage(s)
    \/ BroadcastStart
    \/ BroadcastResume

SpecManager == InitManager /\ [][NextManager]_vars

-----------------------------------------------------------------------------
(* SpecLoop: the handlers on the one event loop, step by step.  A handler  *)
(* runs from one await to the next without giving up the thread; running   *)
(* names the handler that is between two awaits.  predict, generate_audio  *)
(* and db.commit are plain calls: the handler that makes one keeps the     *)
(* thread until it returns.  A frame is [n, kind]: n is its arrival number *)
(* on its connection.  An entry of handed is [msg, re]: re names the       *)
(* connection and the frame whose handling passed msg to send_message, 0   *)
(* for the welcome.                                                        *)

\* the kinds of frame the clients send
FrameKindsTried == {"ping", "landmarks", "non_object"}

\* data.sequence of every landmarks frame: SEQUENCE_LENGTH frames of
\* LANDMARK_SIZE numbers
LoopSequence == [shape |-> "flat", len |-> SEQUENCE_LENGTH, base |-> 0]

\* len(self.active_connections)
get_connection_count(reg) == Cardinality(DOMAIN reg.active_connections)

\* GET /ws/status: the count and list(manager.active_connections.keys())
websocket_status(reg) ==
    [active_connections |-> get_connection_count(reg),
     sessions |-> SelectSeq(reg.order, LAMBDA k : k # None)]

ReceiveNewest(q) == [frame |-> q[Len(q)], rest |-> SubSeq(q, 1, Len(q) - 1)]

\* await websocket.receive_text(): the oldest frame not yet read
receive_text(q) == [frame |-> Head(q), rest |-> Tail(q)]

\* the frames that have reached the server
Arrived == [c \in Conns |-> taken[c] + Len(inbox[c])]

\* what a cache miss and a commit are taken to do in SpecLoop
LoopSynthOutcomes == {"ok"}

LoopCommitsTried == {TRUE}

\* send_json was given msg on the socket `to`, if there was one
Deliver(h, to, msg, re) ==
    IF to = None THEN h ELSE [h EXCEPT ![to] = Append(@, [msg |-> msg, re |-> re])]

\* manager.send_message(sid[c], msg) by the handler c for its frame n
Push(c, msg, n) ==
    Deliver(handed, send_message(Registry, ws_open, sid[c]).to, msg,
            [conn |-> c, n |-> n])

\* the handler c is suspended in receive_text, a frame is there for it and
\* no other handler holds the thread: the loop can resume it
CanTake(c) == running = None /\ pc[c] = "receive" /\ inbox[c] # << >>

\* the frame receive_text returns is read off the socket
Take(c) ==
    /\ inbox' = [inbox EXCEPT ![c] = receive_text(@).rest]
    /\ taken' = [taken EXCEPT ![c] = @ + 1]

\* manager.connect, the session_logs row, the welcome message passed to
\* send_message; the handler then waits in receive_text
Accept(c, s) ==
    /\ running = None
    /\ pc[c] = "new"
    /\ LET reg == connect(Registry, c, s)
       IN  /\ active_connections' = reg.active_connections
           /\ session_data' = reg.session_data
           /\ order' = reg.order
           /\ handed' = Deliver(handed, send_message(reg, ws_open, s).to,
                                Connected(s), [conn |-> c, n |-> 0])
    /\ session_logs' =
         IF s \notin DOMAIN session_logs
         THEN (s :> [ended |-> FALSE, total_predictions |-> 0]) @@ session_logs
         ELSE session_logs
    /\ sid' = [sid EXCEPT ![c] = s]
    /\ pc' = [pc EXCEPT ![c] = "receive"]
    /\ UNCHANGED << use_dummy, enabled, inferenceVars, ttsVars, ws_open,
                    gesture_predictions, db_dirty, last, ended, managerCallVars, produced,
                    torn, running, inbox, taken, cur >>

\* a frame of the client c reaches the server
ClientSend(c, kind) ==
    /\ pc[c] \notin {"new", "done"}
    /\ ws_open[c]
    /\ Arrived["w1"] + Arrived["w2"] < MaxFrames
    /\ inbox' = [inbox EXCEPT ![c] = Append(@, [n |-> Arrived[c] + 1, kind |-> kind])]
    /\ UNCHANGED << use_dummy, enabled, inferenceVars, ttsVars, active_connections,
                    session_data, pc, sid, ws_open, gesture_predictions,
                    session_logs, db_dirty, last, ended, order, managerCallVars, produced,
                    torn, running, taken, cur, handed >>

\* the client c closes its end, wherever its handler is
Hangup(c) ==
    /\ pc[c] \notin {"new", "done"}
    /\ ws_open[c]
    /\ ws_open' = [ws_open EXCEPT ![c] = FALSE]
    /\ UNCHANGED << use_dummy, enabled, inferenceVars, ttsVars, active_connections,
                    session_data, pc, sid, gesture_predictions, session_logs,
                    db_dirty, last, ended, order, managerCallVars, torn, loopVars >>

\* a ping is read and the pong passed to send_message
TakePing(c) ==
    /\ CanTake(c)
    /\ receive_text(inbox[c]).frame.kind = "ping"
    /\ Take(c)
    /\ handed' = Push(c, Pong, receive_text(inbox[c]).frame.n)
    /\ UNCHANGED << use_dummy, enabled, inferenceVars, ttsVars, active_connections,
                    session_data, pc, sid, ws_open, gesture_predictions,
                    session_logs, db_dirty, last, ended, order, managerCallVars, produced,
                    torn, running, cur >>

\* a frame that decodes to no dict is read: message.get raises, the loop is
\* left through the outer except and the finally block runs
TakeNonObject(c) ==
    /\ CanTake(c)
    /\ receive_text(inbox[c]).frame.kind = "non_object"
    /\ Take(c)
    /\ Finally(c, TRUE)
    /\ ws_open' = [ws_open EXCEPT ![c] = FALSE]
    /\ UNCHANGED << use_dummy, enabled, inferenceVars, ttsVars, sid,
                    gesture_predictions, last, managerCallVars, produced, running, cur,
                    handed >>

\* a landmarks frame is read: process_landmarks is entered and the sequence
\* passes the length check
TakeLandmarks(c) ==
    /\ CanTake(c)
    /\ receive_text(inbox[c]).frame.kind = "landmarks"
    /\ ~TooShort(Some(LoopSequence))
    /\ Take(c)
    /\ cur' = [cur EXCEPT ![c] = Some([n |-> receive_text(inbox[c]).frame.n,
                                       r |-> Nothing, audio |-> NoAudio,
                                       appended |-> FALSE])]
    /\ pc' = [pc EXCEPT ![c] = "predict"]
    /\ running' = c
    /\ UNCHANGED << use_dummy, enabled, inferenceVars, ttsVars, active_connections,
                    session_data, sid, ws_open, gesture_predictions, session_logs,
                    db_dirty, last, ended, order, managerCallVars, produced, torn, handed >>

\* inference_service.predict returns; a confidence under the threshold is
\* answered and ends the handling
Classify(c) ==
    /\ running = c
    /\ pc[c] = "predict"
    /\ \E r \in PredictTried[LoopSequence, use_dummy] :
         IF BelowThreshold(r.confidence)
         THEN /\ handed' = Push(c, LowConfidence(r.confidence), cur[c].val.n)
              /\ cur' = [cur EXCEPT ![c] = Nothing]
              /\ pc' = [pc EXCEPT ![c] = "receive"]
              /\ running' = None
         ELSE /\ cur' = [cur EXCEPT ![c].val.r = Some(r)]
              /\ pc' = [pc EXCEPT ![c] = "tts"]
              /\ UNCHANGED << running, handed >>
    /\ UNCHANGED << use_dummy, enabled, inferenceVars, ttsVars, active_connections,
                    session_data, sid, ws_open, gesture_predictions, session_logs,
                    db_dirty, last, ended, order, managerCallVars, produced, torn, inbox,
                    taken >>

\* tts_service.generate_audio returns
Synthesise(c, outcome) ==
    /\ running = c
    /\ pc[c] = "tts"
    /\ CallGenerateAudio(cur[c].val.r.val.label, outcome)
    /\ cur' = [cur EXCEPT ![c].val.audio = tts'.ret]
    /\ pc' = [pc EXCEPT ![c] = "log"]
    /\ UNCHANGED << use_dummy, enabled, inferenceVars, active_connections,
                    session_data, sid, ws_open, gesture_predictions, session_logs,
                    db_dirty, last, ended, order, managerCallVars, produced, torn, running,
                    inbox, taken, handed >>

\* db.add and db.commit of the prediction row return, or raise and are logged
AppendRow(c, dbok) ==
    /\ running = c
    /\ pc[c] = "log"
    /\ LET logged == LogPrediction(gesture_predictions, db_dirty[c],
                                   [session_id |-> sid[c],
                                    predicted_label |-> cur[c].val.r.val.label,
                                    confidence |-> cur[c].val.r.val.confidence],
                                   dbok)
       IN  /\ gesture_predictions' = logged.rows
           /\ db_dirty' = [db_dirty EXCEPT ![c] = logged.dirty]
           /\ cur' = [cur EXCEPT ![c].val.appended = ~logged.failed]
    /\ pc' = [pc EXCEPT ![c] = "send"]
    /\ UNCHANGED << use_dummy, enabled, inferenceVars, ttsVars, active_connections,
                    session_data, sid, ws_open, session_logs, last, ended, order,
                    managerCallVars, produced, torn, running, inbox, taken, handed >>

\* the session's stats are updated and the response is passed to
\* send_message; the handler then waits in receive_text
Respond(c) ==
    /\ running = c
    /\ pc[c] = "send"
    /\ session_data' = UpdateStats(session_data, sid[c], cur[c].val.r.val.label)
    /\ handed' = Push(c, PredictionResponse(cur[c].val.r.val, cur[c].val.audio),
                      cur[c].val.n)
    /\ cur' = [cur EXCEPT ![c] = Nothing]
    /\ pc' = [pc EXCEPT ![c] = "receive"]
    /\ running' = None
    /\ produced' = [produced EXCEPT ![c] = @ + 1]
    /\ UNCHANGED << use_dummy, enabled, inferenceVars, ttsVars, active_connections,
                    sid, ws_open, gesture_predictions, session_logs, db_dirty, last,
                    ended, order, managerCallVars, torn, inbox, taken >>

\* receive_text finds the socket closed and nothing left to read
Disconnected(c) ==
    /\ running = None
    /\ inbox[c] = << >>
    /\ Teardown(c, TRUE)

\* a trained model is loaded, the audio service is on
InitLoop ==
    /\ InferenceIdle
    /\ use_dummy = FALSE
    /\ enabled = TRUE
    /\ TtsIdle
    /\ ServerIdle

\* the steps of the handler of the connection c
HandlerStep(c) ==
    \/ \E s \in IdsTried[c] : Accept(c, s)
    \/ TakePing(c)
    \/ TakeNonObject(c)
    \/ TakeLandmarks(c)
    \/ Classify(c)
    \/ \E outcome \in LoopSynthOutcomes : Synthesise(c, outcome)
    \/ \E dbok \in LoopCommitsTried : AppendRow(c, dbok)
    \/ Respond(c)
    \/ Disconnected(c)

NextLoop ==
    \/ \E c \in Conns : HandlerStep(c)
    \/ \E c \in Conns, kind \in FrameKindsTried : ClientSend(c, kind)
    \/ \E c \in Conns : Hangup(c)

SpecLoop == InitLoop /\ [][NextLoop]_vars

\* the event loop resumes every handler that stays ready, and every call a
\* handler makes returns
SpecLoopFair == SpecLoop /\ \A c \in Conns : WF_vars(HandlerStep(c))

-----------------------------------------------------------------------------
(* Claims on SpecInference *)

\* the sequence under test
TestedSequence == Input(landmarks.val)

\* L frames, each a flat vector of LANDMARK_SIZE numbers
WellFormed(lm) ==
    lm.kind = "flat" /\ \A i \in 1..Len(lm.rows) : Len(lm.rows[i]) = LANDMARK_SIZE

ZeroRow(row) == \A k \in 1..Len(row) : row[k] = 0

\* the rows of the tensor are the pad-front / keep-last window of `rows`
IsWindowOf(out, rows) ==
    LET L == Len(rows)
    IN  /\ Len(out) = SEQUENCE_LENGTH
        /\ \A i \in 1..SEQUENCE_LENGTH : Len(out[i]) = LANDMARK_SIZE
        /\ L < SEQUENCE_LENGTH =>
             /\ \A i \in 1..(SEQUENCE_LENGTH - L) : ZeroRow(out[i])
             /\ \A i \in 1..L : out[SEQUENCE_LENGTH - L + i] = rows[i]
        /\ L > SEQUENCE_LENGTH =>
             \A i \in 1..SEQUENCE_LENGTH : out[i] = rows[L - SEQUENCE_LENGTH + i]
        /\ L = SEQUENCE_LENGTH => out = rows

\* C6 as stated: for every well-formed input of L frames the window has
\* SEQUENCE_LENGTH rows, zero rows in front when L is smaller, the last
\* SEQUENCE_LENGTH input rows when L is larger, and the rows equal the input
\* rows themselves.
C6_WindowEqualsInput ==
    (window.some /\ WellFormed(TestedSequence)) =>
        /\ window.val.ok
        /\ IsWindowOf(window.val.val.data, TestedSequence.rows)

\* C6 (amended): for every well-formed input of L >= 1 frames the window has
\* SEQUENCE_LENGTH rows of LANDMARK_SIZE columns; the first SEQUENCE_LENGTH - L
\* rows are zero when L is smaller and the rest are the input rows in order,
\* the last SEQUENCE_LENGTH input rows are kept when L is larger, each
\* coordinate converted to single precision.
C6_WindowNormalised ==
    (window.some /\ WellFormed(TestedSequence) /\ Len(TestedSequence.rows) >= 1) =>
        /\ window.val.ok
        /\ IsWindowOf(window.val.val.data,
                      [i \in 1..Len(TestedSequence.rows) |->
                         [k \in 1..LANDMARK_SIZE |-> Float32(TestedSequence.rows[i][k])]])

\* a short well-formed input has been padded in front
C6_Witness ==
    /\ window.some
    /\ WellFormed(TestedSequence)
    /\ Len(TestedSequence.rows) = 10
    /\ window.val.ok
    /\ ZeroRow(window.val.val.data[SEQUENCE_LENGTH - 10])
    /\ ~ZeroRow(window.val.val.data[SEQUENCE_LENGTH - 9])

\* C7: every triple predict returns, on every return path, has
\* label = LABELS[class_index], 0 <= class_index < len(LABELS) and
\* 0 <= confidence <= 1.
C7_PredictionWellFormed ==
    triple.some =>
        /\ triple.val.class_idx \in 0..(NumLabels - 1)
        /\ triple.val.label = LABELS[triple.val.class_idx + 1]
        /\ triple.val.confidence >= 0
        /\ triple.val.confidence <= ConfOne

\* the trained strategy faulted and the heuristic computed the triple
C7_Witness ==
    /\ triple.some
    /\ ~use_dummy
    /\ triple.val.fault
    /\ triple.val.path = "dummy"
    /\ triple.val.class_idx = 37

\* C25: predict returns a triple for every input, well-formed or malformed,
\* under both strategies: no call is left without a result and no result is
\* an exception.
C25_PredictNeverRaises ==
    /\ predict(TestedSequence, use_dummy) # {}
    /\ triple.some =>
         /\ triple.val # Raise
         /\ triple.val.label \in Range(LABELS)

\* a ragged sequence made the trained strategy and then the heuristic fail,
\* and predict returned the constant triple
C25_Witness ==
    /\ triple.some
    /\ ~use_dummy
    /\ landmarks.val.shape = "ragged"
    /\ landmarks.val.len >= MIN_FRAMES
    /\ triple.val.fault
    /\ triple.val.path = "fallback"

\* C26 as stated: on every predict call with at least MIN_FRAMES frames, the
\* data the strategy that answers computes on, the trained model or the
\* stand-in heuristic, has SEQUENCE_LENGTH rows and LANDMARK_SIZE columns.
C26_ClassifierInputShape ==
    (triple.some /\ Len(TestedSequence.rows) >= MIN_FRAMES) =>
        LET on == StrategyInput(TestedSequence, triple.val.path)
        IN  on.ok => on.val = << SEQUENCE_LENGTH, LANDMARK_SIZE >>

-----------------------------------------------------------------------------
(* Claims on SpecTts *)

\* C8: two successive generate_audio(label) calls with no clear_cache in
\* between, the first returning audio, return the same audio, and gTTS is
\* called at most once in the two calls.
C8_CacheHitIdempotent ==
    (tts.op = "generate_audio" /\ tts.before.some) =>
        /\ tts.ret = tts.before.val.ret
        /\ tts.before.val.synth + tts.synth <= 1

\* the first call synthesised, the second was served from the cache
C8_Witness ==
    /\ tts.op = "generate_audio"
    /\ tts.before.some
    /\ tts.before.val.synth = 1
    /\ tts.synth = 0
    /\ tts.ret = << B64(Synthesize(ArabicText(tts.label))), "mp3" >>

\* C9: clear_cache removes every cached entry and returns their number; the
\* generate_audio that follows it for a label that was cached is a miss that
\* calls gTTS again.
C9_ClearThenMiss ==
    /\ tts.op = "clear_cache" =>
         /\ cache = NoFiles
         /\ tts.count = Cardinality(tts.had)
    /\ (tts.op = "generate_audio" /\ tts.after_clear
          /\ _get_cache_path(tts.label) \in tts.had) =>
         /\ tts.synth = 1
         /\ ~tts.before.some

\* a cached label was cleared and synthesised again
C9_Witness ==
    /\ tts.op = "generate_audio"
    /\ tts.after_clear
    /\ _get_cache_path(tts.label) \in tts.had
    /\ Cardinality(tts.had) >= 2
    /\ tts.synth = 1
    /\ tts.ret # NoAudio

\* C23 as stated: after any sequence of generate_audio, pregenerate_all and
\* clear_cache calls, a generate_audio(label) that returns audio returns the
\* audio synthesised from the label's own pronunciation text.
C23_CacheFunctionOfLabel ==
    (tts.op = "generate_audio" /\ tts.ret # NoAudio) =>
        tts.ret = << B64(Synthesize(ArabicText(tts.label))), "mp3" >>

\* C24: pregenerate_all calls generate_audio for every vocabulary label,
\* whichever of them fail, and afterwards every label it synthesised is
\* returned from the cache without a gTTS call.
C24_PrewarmTolerant ==
    tts.op = "pregenerate_all" =>
        /\ tts.calls = NumLabels
        /\ \A l \in tts.made :
             LET g == generate_audio(cache, enabled, l, "synth_error")
             IN  g.ret # NoAudio /\ g.synth = 0

\* gTTS failed for the first label, which stays uncached, and the labels
\* after it were synthesised
C24_Witness ==
    /\ tts.op = "pregenerate_all"
    /\ tts.calls = NumLabels
    /\ "Alif" \notin tts.made
    /\ CachePathOf["Alif"] \notin DOMAIN cache
    /\ {"Ba", "liin"} \subseteq tts.made

-----------------------------------------------------------------------------
(* Claims on Spec *)

\* the last message handled was a landmarks message
LandmarksHandled == last.type = "landmarks"

\* the number of frames of the sequence the last message carried
LastLen == IF last.input.some THEN FramesTried[last.input.val] ELSE 0

\* the last message left the session's stats, the prediction log and the
\* audio cache as they were, and looked no audio up
Untouched ==
    /\ last.stats_after = last.stats_before
    /\ last.rows_added = 0
    /\ last.tts_calls = 0
    /\ last.synth_calls = 0
    /\ last.cache_same

\* the one message the last step emitted is of the given type
Emitted(type) == Len(last.sent) = 1 /\ last.sent[1].type = type

\* the session's prediction_count went up by exactly one
CountedOnce ==
    /\ last.stats_before.some
    /\ last.stats_after.some
    /\ last.stats_after.val.prediction_count =
         last.stats_before.val.prediction_count + 1

\* C1: for every landmarks message whose sequence has MIN_FRAMES frames or
\* more and every classifier result: if the confidence is below
\* CONFIDENCE_THRESHOLD the server emits low_confidence and the session's
\* prediction_count is unchanged; otherwise (equality included) it emits a
\* prediction carrying the classifier's label and index and the session's
\* prediction_count, the session having an entry in session_data, increases
\* by exactly one.
C1_ConfidenceGate ==
    (LandmarksHandled /\ LastLen >= MIN_FRAMES) =>
        /\ last.cls.some
        /\ IF last.cls.val.confidence < CONFIDENCE_THRESHOLD
           THEN /\ last.sent = << LowConfidence(last.cls.val.confidence) >>
                /\ last.stats_after = last.stats_before
           ELSE /\ Emitted("prediction")
                /\ last.sent[1].label = last.cls.val.label
                /\ last.sent[1].class_index = last.cls.val.class_idx
                /\ last.stats_before.some => CountedOnce

\* a confidence equal to the threshold produced a prediction and was counted
C1_Witness ==
    /\ LandmarksHandled
    /\ last.cls.some
    /\ last.cls.val.confidence = CONFIDENCE_THRESHOLD
    /\ Emitted("prediction")
    /\ CountedOnce

\* C2: a landmarks message is answered with the error "Insufficient landmark
\* data" exactly when its sequence is absent, empty or shorter than
\* MIN_FRAMES frames (so a sequence of MIN_FRAMES frames or more is accepted
\* even when shorter than SEQUENCE_LENGTH), and then the classifier is not
\* invoked and the cache, the prediction log and the stats are untouched.
C2_MinimumLength ==
    LandmarksHandled =>
        /\ (last.sent = << ErrorMessage("Insufficient landmark data") >>)
             <=> (~last.input.some \/ LastLen < MIN_FRAMES)
        /\ LastLen < MIN_FRAMES => (~last.cls.some /\ Untouched)

\* a sequence one frame short of the minimum was rejected
C2_Witness ==
    /\ LandmarksHandled
    /\ last.input.some
    /\ LastLen = MIN_FRAMES - 1
    /\ last.sent = << ErrorMessage("Insufficient landmark data") >>
    /\ ~last.cls.some

\* C3: a landmarks message whose classifier confidence is below the
\* threshold is answered with low_confidence and changes nothing: no audio
\* is looked up or synthesised, no row is logged, the stats are unchanged.
C3_LowConfidenceUntouched ==
    (LandmarksHandled /\ last.cls.some
       /\ last.cls.val.confidence < CONFIDENCE_THRESHOLD) =>
        /\ Emitted("low_confidence")
        /\ Untouched

\* a low-confidence message was handled after a counted prediction
C3_Witness ==
    /\ LandmarksHandled
    /\ last.cls.some
    /\ last.cls.val.confidence < CONFIDENCE_THRESHOLD
    /\ Emitted("low_confidence")
    /\ last.stats_before.some
    /\ last.stats_before.val.prediction_count = 1
    /\ Len(gesture_predictions) = 1

\* the sequence of the last message has a frame that is not a flat vector of
\* LANDMARK_SIZE numbers
LastMalformed == last.input.some /\ ~FlatTried[last.input.val]

\* C4 as stated: a landmarks message of MIN_FRAMES frames or more whose
\* frames are ragged or not LANDMARK_SIZE wide is answered with an error and
\* changes no server state.
C4_MalformedRejected ==
    (LandmarksHandled /\ LastLen >= MIN_FRAMES /\ LastMalformed) =>
        /\ Emitted("error")
        /\ Untouched

\* C5 as stated: when the classifier faults at prediction time the triple is
\* (LABELS[0], 0.0, 0) and the message is answered with low_confidence.
C5_ClassifierFailsClosed ==
    (LandmarksHandled /\ last.cls.some /\ last.cls.val.fault) =>
        /\ last.cls.val.label = LABELS[1]
        /\ last.cls.val.confidence = 0
        /\ last.cls.val.class_idx = 0
        /\ Emitted("low_confidence")

\* C10: when a prediction passes the gate and audio is switched off or
\* cannot be produced, the server still emits a prediction, without the
\* audio_base64 and audio_format fields, never an error, and the session's
\* prediction_count, the session having an entry in session_data, still
\* increases by one.
C10_AudioFaultNonFatal ==
    (LandmarksHandled /\ last.cls.some
       /\ last.cls.val.confidence >= CONFIDENCE_THRESHOLD
       /\ last.audio = NoAudio) =>
        /\ Emitted("prediction")
        /\ DOMAIN last.sent[1] =
             {"type", "label", "arabic", "confidence", "class_index"}
        /\ last.sent[1].label = last.cls.val.label
        /\ last.stats_before.some => CountedOnce

\* gTTS was called, failed, and the prediction went out without audio
C10_Witness ==
    /\ LandmarksHandled
    /\ last.cls.some
    /\ enabled
    /\ last.tts_calls = 1
    /\ last.synth_calls = 1
    /\ last.audio = NoAudio
    /\ Emitted("prediction")
    /\ CountedOnce

\* C11: when the insert of the prediction row fails, the server still emits
\* the prediction for that message, never an error, the session's
\* prediction_count, the session having an entry in session_data, still
\* increases by one, and the insert is tried once only: no row is added.
C11_PersistenceFaultInvisible ==
    (LandmarksHandled /\ last.log_failed) =>
        /\ Emitted("prediction")
        /\ last.sent[1].label = last.cls.val.label
        /\ last.stats_before.some => CountedOnce
        /\ last.log_tries = 1
        /\ last.rows_added = 0

\* the insert failed and the client was sent its prediction
C11_Witness ==
    /\ LandmarksHandled
    /\ last.log_failed
    /\ Emitted("prediction")
    /\ last.to = last.conn
    /\ CountedOnce
    /\ gesture_predictions = << >>

\* C12: every ping handled for a registered session makes the server emit
\* exactly one message, a pong, pushed on the transport registered for the
\* session unless that transport's send raises, within the step that handles
\* the ping, after which the handler waits for its next message; whatever
\* landmarks messages came before.
C12_PingPong ==
    (last.type = "ping" /\ last.registered) =>
        /\ last.sent = << Pong >>
        /\ last.send_raised \/ last.to = last.transport
        /\ last.pc_after = "receive"

\* a ping was answered on the sender's socket after a counted prediction
C12_Witness ==
    /\ last.type = "ping"
    /\ last.registered
    /\ last.sent = << Pong >>
    /\ last.to = last.conn
    /\ last.stats_before.some
    /\ last.stats_before.val.prediction_count = 1

\* the last message changed nothing the server keeps and left the handler
\* waiting for its next message
ReadOnly ==
    /\ Untouched
    /\ last.registry_same
    /\ last.logs_same
    /\ last.pc_after = "receive"

\* C13 as stated: a text frame that is not valid JSON is answered with
\* exactly one error and the connection goes on: the session stays
\* registered, nothing the server keeps changes and the handler waits for
\* its next message.
C13_InvalidJson ==
    (last.frame # None /\ ~ValidJson(last.frame)) =>
        /\ last.sent = << ErrorMessage("Invalid JSON format") >>
        /\ ReadOnly

\* C14: a message of any other type, or of none, is ignored: nothing is
\* sent, nothing the server keeps changes and the handler waits for its
\* next message.
C14_UnknownIgnored ==
    last.type = "unknown" =>
        /\ last.sent = << >>
        /\ ReadOnly

\* a message of unknown type was ignored after a counted prediction
C14_Witness ==
    /\ last.type = "unknown"
    /\ last.sent = << >>
    /\ last.stats_after.some
    /\ last.stats_after.val.prediction_count = 1
    /\ Len(gesture_predictions) = 1
    /\ last.pc_after = "receive"

\* C15: ping and get_labels change nothing the server keeps (the session's
\* prediction_count and last_prediction, the registry, the audio cache, the
\* prediction log), and get_labels is answered with LABELS and ARABIC_LABELS.
C15_ReadOnlyKinds ==
    /\ last.type \in {"ping", "get_labels"} => ReadOnly
    /\ last.type = "get_labels" =>
         last.sent = << [type |-> "labels", labels |-> LABELS,
                         arabic_labels |-> ARABIC_LABELS] >>

\* get_labels was answered with a prediction counted and its audio cached
C15_Witness ==
    /\ last.type = "get_labels"
    /\ Emitted("labels")
    /\ last.stats_after.some
    /\ last.stats_after.val.prediction_count = 1
    /\ last.stats_after.val.last_prediction = "ta"
    /\ cache # NoFiles

\* C20: the teardown of a connection with session id X removes X's entries
\* and only them: for every other id both entries are as they were, and the
\* other handlers are where they were.
C20_TeardownIsolated ==
    ended.n > 0 =>
        /\ ended.gone
        /\ ended.others_same
        /\ ended.handlers_same

\* a connection was torn down while another session had a counted prediction
C20_Witness ==
    /\ ended.n = 1
    /\ ended.conn = "w1"
    /\ ended.own_entry
    /\ pc["w2"] = "receive"
    /\ sid["w2"] = "s2"
    /\ "s2" \in DOMAIN session_data
    /\ session_data["s2"].prediction_count = 1
    /\ active_connections["s2"] = "w2"

\* C35 as stated: a frame that is valid JSON and not a well-formed envelope
\* (an array; a landmarks message whose data is no object or whose sequence
\* is no list) leaves the handler in its receive loop and the session in
\* the registry.
C35_ContentNeverEnds ==
    last.type \in {"non_object", "landmarks_fault"} =>
        /\ last.pc_after = "receive"
        /\ last.registry_same

\* C36: a landmarks message handled on a registered session, well-formed or
\* not, has exactly one message passed to send_message, of type error,
\* low_confidence or prediction; send_json is called with it on the socket
\* registered under the id; and process_landmarks returns, so the handler is
\* back in its receive loop.
C36_OneResponse ==
    (last.type \in {"landmarks", "landmarks_fault"} /\ last.registered) =>
        /\ Len(last.sent) = 1
        /\ last.sent[1].type \in {"error", "low_confidence", "prediction"}
        /\ last.to = last.transport \/ last.send_raised
        /\ last.pc_after = "receive"

\* the exception path answered the second message of a registered session
C36_Witness ==
    /\ last.seq = 2
    /\ last.type = "landmarks_fault"
    /\ last.frame = "sequence_not_sized"
    /\ last.registered
    /\ last.sent = << ErrorMessage(ProcessingError("sequence_not_sized")) >>
    /\ last.to = last.conn
    /\ last.pc_after = "receive"

-----------------------------------------------------------------------------
(* Claims on SpecManager *)

\* C16: disconnect(id) for an id that is not registered raises nothing,
\* creates no entry and leaves active_connections and session_data as they
\* were; disconnect(id) twice leaves what disconnect(id) once leaves.
C16_DisconnectIdempotent ==
    mgr.op = "disconnect" =>
        /\ (mgr.id \notin DOMAIN mgr.before.active_connections
              /\ mgr.id \notin DOMAIN mgr.before.session_data) =>
             (mgr.after = mgr.before /\ ~mgr.raised)
        /\ mgr.twice = mgr.after

\* an id never connected was disconnected while a session was registered
C16_Witness ==
    /\ mgr.op = "disconnect"
    /\ mgr.id = "s3"
    /\ DOMAIN mgr.before.active_connections = {"s1"}
    /\ mgr.after = mgr.before

\* C17 as stated: connect under an id that is registered does not replace
\* the entry silently: a connection that is open, whose handler runs and
\* whose id is registered is the one the registry holds under that id.
C17_NoSilentReplace ==
    \A c \in Conns :
        (pc[c] = "receive" /\ ws_open[c] /\ sid[c] \in DOMAIN active_connections) =>
            active_connections[sid[c]] = c

\* C18: send_message(id, m) for an id that is not registered sends nothing
\* and changes nothing; when the transport's send raises, send_message does
\* not raise and the registry keeps the session's entries.
C18_SendSemantics ==
    mgr.op = "send_message" =>
        /\ ~mgr.raised
        /\ mgr.after = mgr.before
        /\ mgr.id \notin DOMAIN mgr.before.active_connections =>
             (mgr.to = None /\ ~mgr.send_raised)
        /\ mgr.id \in DOMAIN mgr.before.active_connections =>
             (mgr.send_raised \/ mgr.to = mgr.before.active_connections[mgr.id])

\* a send on a closed transport raised and the session is still registered
C18_Witness ==
    /\ mgr.op = "send_message"
    /\ mgr.send_raised
    /\ ~mgr.raised
    /\ mgr.id \in DOMAIN mgr.after.active_connections
    /\ mgr.id \in DOMAIN mgr.after.session_data

\* the ids registered to the same transport from the start of the broadcast
\* until now
StayedRegistered ==
    {s \in DOMAIN bc.start \cap DOMAIN active_connections :
        active_connections[s] = bc.start[s]}

\* C19 as stated: a broadcast never raises, and once it has ended it has
\* tried every session that stayed registered throughout, whatever connects
\* or disconnects while it is suspended in a send.
C19_BroadcastDeliversAll ==
    /\ bc.status # "raised"
    /\ bc.status = "done" => StayedRegistered \subseteq bc.attempted

\* C39: in every state active_connections and session_data have the same
\* keys, and get_connection_count() is the number of ids the status query
\* lists, which are those keys, each once.
C39_MapsInStep ==
    /\ DOMAIN active_connections = DOMAIN session_data
    /\ get_connection_count(Registry) = Len(websocket_status(Registry).sessions)
    /\ websocket_status(Registry).active_connections = Cardinality(DOMAIN session_data)
    /\ Range(websocket_status(Registry).sessions) = DOMAIN active_connections

\* s1 was connected and disconnected by a direct call, s2 is registered
C39_Witness ==
    /\ mgr.op = "disconnect"
    /\ order = << None, "s2" >>
    /\ DOMAIN session_data = {"s2"}
    /\ websocket_status(Registry) = [active_connections |-> 1, sessions |-> << "s2" >>]

-----------------------------------------------------------------------------
(* Claims on SpecLoop *)

\* the two connections do not share a session id
DistinctIds == sid["w1"] # sid["w2"]

\* the handler of c is between its connect and its finally block
Live(c) == pc[c] \notin {"new", "done"}

\* the prediction responses on the socket c that its own frames triggered
OwnPredictions(c) ==
    Cardinality({i \in DOMAIN handed[c] :
                    /\ handed[c][i].msg.type = "prediction"
                    /\ handed[c][i].re.conn = c})

\* C21: with two sessions of distinct ids at work, every message on a socket
\* was triggered by a frame of that socket's own connection; the registry
\* counts 2 connections in every state in which both handlers are between
\* connect and teardown; and the prediction_count of a session whose client
\* is still there is the number of predictions its own frames were answered
\* with.
C21_ResponseRouting ==
    DistinctIds =>
        /\ \A t \in Conns : \A i \in DOMAIN handed[t] : handed[t][i].re.conn = t
        /\ (\A c \in Conns : Live(c)) => get_connection_count(Registry) = 2
        /\ \A c \in Conns :
             (Live(c) /\ ws_open[c]) =>
                 session_data[sid[c]].prediction_count = OwnPredictions(c)

\* one session's accepted prediction is about to be answered while a frame
\* of the other waits, and the other was answered with low_confidence before
C21_Witness ==
    /\ DistinctIds
    /\ \A c \in Conns : Live(c) /\ ws_open[c]
    /\ pc["w1"] = "send"
    /\ inbox["w2"] # << >>
    /\ \E i \in DOMAIN handed["w2"] : handed["w2"][i].msg.type = "low_confidence"
    /\ session_data["s1"].prediction_count = 0
    /\ session_data["s2"].prediction_count = 0

\* C22: a socket has been given nothing before its handler connects; from
\* then on the first message it was given is the `connected` message with
\* its session id and the vocabulary, and no later one is a `connected`.
C22_WelcomeFirst ==
    \A c \in Conns :
        /\ pc[c] = "new" => handed[c] = << >>
        /\ pc[c] # "new" =>
             /\ handed[c] # << >>
             /\ handed[c][1].msg.type = "connected"
             /\ handed[c][1].msg.session_id = sid[c]
             /\ handed[c][1].msg.labels = LABELS
             /\ handed[c][1].re = [conn |-> c, n |-> 0]
             /\ \A i \in 2..Len(handed[c]) : handed[c][i].msg.type # "connected"

\* the second socket took the id of the first, got its welcome and then the
\* pong of a ping the first one sent
C22_Witness ==
    /\ sid["w2"] = sid["w1"]
    /\ Len(handed["w2"]) >= 2
    /\ handed["w2"][1].msg = Connected("s1")
    /\ handed["w2"][2].msg.type = "pong"
    /\ handed["w2"][2].re.conn = "w1"

\* send_json has been given the prediction that answers frame n of c
Responded(c, n) ==
    \E t \in Conns : \E i \in DOMAIN handed[t] :
        /\ handed[t][i].re = [conn |-> c, n |-> n]
        /\ handed[t][i].msg.type = "prediction"

\* C27 as stated: when the row of an accepted prediction has been appended
\* to gesture_predictions, its response has been passed to the transport.
C27_ResponseBeforeLog ==
    \A c \in Conns :
        (cur[c].some /\ cur[c].val.appended) => Responded(c, cur[c].val.n)

\* the handler of a is in predict, in generate_audio or in the commit
Busy(a) == pc[a] \in {"predict", "tts", "log"}

\* C28 as stated: while one handler is classifying, synthesising or
\* appending, another handler whose ping has arrived can be resumed.
C28_CrossSessionProgress ==
    \A a, b \in Conns :
        (a # b /\ Busy(a) /\ pc[b] = "receive" /\ inbox[b] # << >>
               /\ Head(inbox[b]).kind = "ping") => CanTake(b)

\* C29: on every connection the frames are read in arrival order, the
\* landmarks message in process is the last frame read, every message
\* passed to a socket answers a frame read before the one in process, and
\* the answers to one connection's frames are in the order of the frames.
C29_PerSessionOrder ==
    \A c \in Conns :
        /\ \A i \in DOMAIN inbox[c] : inbox[c][i].n = taken[c] + i
        /\ cur[c].some => cur[c].val.n = taken[c]
        /\ \A t \in Conns : \A i \in DOMAIN handed[t] :
             handed[t][i].re.conn = c =>
                 /\ handed[t][i].re.n <= taken[c]
                 /\ cur[c].some => handed[t][i].re.n < cur[c].val.n
                 /\ \A j \in DOMAIN handed[t] :
                      (i < j /\ handed[t][j].re.conn = c) =>
                          handed[t][i].re.n < handed[t][j].re.n

\* a second frame waited while the first was in process, and both were
\* answered in turn
C29_Witness ==
    /\ Len(handed["w1"]) = 3
    /\ handed["w1"][2].msg.type = "prediction"
    /\ handed["w1"][2].re = [conn |-> "w1", n |-> 1]
    /\ handed["w1"][3].msg.type = "pong"
    /\ handed["w1"][3].re = [conn |-> "w1", n |-> 2]

\* the finally block of c ran at most once, the handler is done exactly
\* if it ran, and then no registry entry names the socket
TornOnce(c) ==
    /\ torn[c] <= 1
    /\ pc[c] = "done" <=> torn[c] = 1
    /\ torn[c] = 1 => \A s \in DOMAIN active_connections : active_connections[s] # c

\* C30: the finally block of every connection (the write of the counter to
\* the session_logs row, then manager.disconnect) runs at most once, whether
\* the loop is left by a disconnect or by another exception, and it does run
\* once the socket is closed.
C30_TeardownOnce ==
    /\ [](\A c \in Conns : TornOnce(c))
    /\ \A c \in Conns : (~ws_open[c]) ~> (torn[c] = 1)

\* one handler left its loop on an exception and the other on a disconnect
\* that came while it was handling a landmarks frame
C30_Witness ==
    /\ torn = [c \in Conns |-> 1]
    /\ ended.n = 2
    /\ taken["w1"] = 1
    /\ Len(gesture_predictions) = 1
    /\ Len(handed["w1"]) = 1
    /\ taken["w2"] = 1
    /\ Len(handed["w2"]) = 1

\* C31 as stated: every connection whose handler is between connect and
\* teardown has an active_connections entry under its session id that is its
\* own socket, and a session_data entry.
C31_LiveHasOwnEntry ==
    \A c \in Conns :
        Live(c) =>
            /\ sid[c] \in DOMAIN active_connections
            /\ active_connections[sid[c]] = c
            /\ sid[c] \in DOMAIN session_data

\* C32 as stated: while a session id stays registered, its prediction_count
\* stays as it is or goes up by one in every step.
C32_CounterMonotone ==
    [][\A s \in DOMAIN session_data \cap DOMAIN session_data' :
          \/ session_data'[s].prediction_count = session_data[s].prediction_count
          \/ session_data'[s].prediction_count = session_data[s].prediction_count + 1]_vars

\* the labels of the prediction responses produced for the frames of c
AcceptedLabels(c) ==
    UNION {{handed[t][i].msg.label :
              i \in {j \in DOMAIN handed[t] :
                        /\ handed[t][j].msg.type = "prediction"
                        /\ handed[t][j].re.conn = c}} : t \in Conns}

\* C33 as stated: at every point, once a prediction response was produced on
\* a session that is still live, the last_prediction of that session is a
\* label of such a response and not None.
C33_LastPredictionTracks ==
    \A c \in Conns :
        (Live(c) /\ sid[c] \in DOMAIN session_data /\ AcceptedLabels(c) # {}) =>
            session_data[sid[c]].last_prediction \in AcceptedLabels(c)

\* C37 as stated: once a connection has been torn down, the
\* total_predictions of the session_logs row of its session is the number of
\* prediction responses produced for that connection.
C37_CounterFlush ==
    \A c \in Conns :
        (pc[c] = "done" /\ sid[c] \in DOMAIN session_logs) =>
            session_logs[sid[c]].total_predictions = produced[c]

\* C38 as stated: after a generate_audio(label) call on the enabled service
\* that returned (None, None), the cache holds no entry for the label.
C38_FailedFillNoEntry ==
    (tts.op = "generate_audio" /\ enabled /\ tts.ret = NoAudio) =>
        CachePathOf[tts.label] \notin DOMAIN cache

-----------------------------------------------------------------------------
(* Claims on SpecFill *)

\* the complete audio of a label
CompleteAudio(label) == Synthesize(ArabicText(label))

\* C34 as stated: with generate_audio calls of two processes overlapping,
\* every call that has returned returned the complete synthesised audio of
\* its label, and no call has read from an entry bytes other than the
\* complete audio.
C34_SameLabelFill ==
    \A k \in Callers :
        /\ fill[k].ret.some =>
             fill[k].ret.val = << B64(CompleteAudio(fill[k].label)), "mp3" >>
        /\ fill[k].audio_data.some =>
             fill[k].audio_data.val = CompleteAudio(fill[k].label)

====
